---- MODULE Spec2Model ----
(***************************************************************************)
(* Model of the LiDAR scanner application (my-app): the binary STL         *)
(* encoder, the text encoders and the nearest-neighbour mesh builder of    *)
(* utils/exporters.ts, the ASCII point-cloud loader and the image loader   *)
(* of components/LiDARLoader.tsx, the bounding-box classifier of           *)
(* utils/limbClassifier.ts and the export handler of App.tsx.              *)
(*                                                                         *)
(* Numbers.  The mesh builder and the binary encoder are modelled on       *)
(* whole-number coordinates, where no operation of computeNormal rounds;   *)
(* the classifier, and computeNormal on decimal fractions, compute in      *)
(* IEEE-754 binary64 (see there).  A component of a unit normal is         *)
(* n / sqrt(l2) and is kept exact as a record [s, p, q] standing for       *)
(* s * sqrt(p / q) with p / q in lowest terms; s = -1 with p = 0 is the    *)
(* IEEE negative zero.  Typed arrays are taken to be little-endian, as on  *)
(* every platform the application runs on.                                 *)
(***************************************************************************)
EXTENDS Integers, Sequences, FiniteSets, TLC

VARIABLES
    pc,            \* "start" before the operation under study has run, "done" after
    triangles,     \* argument of exportTrianglesToSTL
    stl,           \* outcome of exportTrianglesToSTL: exception, buffer, download
    points,        \* argument of createSimpleMeshFromPoints / classifyPointCloud
    maxNeighbors,  \* argument of createSimpleMeshFromPoints
    mesh,          \* result of createSimpleMeshFromPoints
    file,          \* the selected file, as the parts its text is made of
    txt,           \* text of the selected file (file.text())
    pts,           \* result of a parser called directly
    loader,        \* outcome of readPointCloudFile: parsers run, onLoad, error
    cls,           \* result of classifyPointCloud
    normal,        \* result of computeNormal on three points given as decimals
    app            \* the App and its LiDARLoader: React state, reads in flight, exports

vars == <<pc, triangles, stl, points, maxNeighbors, mesh, file, txt, pts, loader, cls,
         normal, app>>

(***************************************************************************)
(* Bounds of the model.                                                    *)
(***************************************************************************)
MaxTriangles == 3
MaxPoints == 4

None == "none"

\* maxNeighbors = 12
DefaultMaxNeighbors == 12

Min(a, b) == IF a < b THEN a ELSE b
Max(a, b) == IF a > b THEN a ELSE b
Abs(a) == IF a < 0 THEN 0 - a ELSE a

RECURSIVE GCD(_, _)
GCD(a, b) == IF b = 0 THEN a ELSE GCD(b, a % b)

RECURSIVE Pow2(_)
Pow2(n) == IF n = 0 THEN 1 ELSE 2 * Pow2(n - 1)

(***************************************************************************)
(* Exact values of the numbers the encoder writes.                         *)
(***************************************************************************)
IntReal(k) == [s |-> IF k < 0 THEN -1 ELSE 1, p |-> k * k, q |-> 1]

\* a * b is the IEEE negative zero: one factor is +0 and the other negative.
NegZeroProd(a, b) == (a = 0 /\ b < 0) \/ (b = 0 /\ a < 0)

\* a * b - c * d evaluates to -0: (-0) - (+0).
NegZeroDiff(a, b, c, d) ==
    /\ a * b = 0 /\ c * d = 0
    /\ NegZeroProd(a, b) /\ ~NegZeroProd(c, d)

\* n / Math.hypot(...) where the hypot is sqrt(l2) > 0; neg0 tells a zero n is -0.
DivByLen(n, neg0, l2) ==
    IF n = 0 THEN [s |-> IF neg0 THEN -1 ELSE 1, p |-> 0, q |-> 1]
    ELSE LET g == GCD(n * n, l2)
         IN  [s |-> IF n < 0 THEN -1 ELSE 1, p |-> (n * n) \div g, q |-> l2 \div g]

(***************************************************************************)
(* computeNormal (exporters.ts 187-208).                                   *)
(***************************************************************************)
computeNormal(v1, v2, v3) ==
    LET e1 == <<v2[1] - v1[1], v2[2] - v1[2], v2[3] - v1[3]>>
        e2 == <<v3[1] - v1[1], v3[2] - v1[2], v3[3] - v1[3]>>
        n  == << e1[2] * e2[3] - e1[3] * e2[2],
                 e1[3] * e2[1] - e1[1] * e2[3],
                 e1[1] * e2[2] - e1[2] * e2[1] >>
        z  == << NegZeroDiff(e1[2], e2[3], e1[3], e2[2]),
                 NegZeroDiff(e1[3], e2[1], e1[1], e2[3]),
                 NegZeroDiff(e1[1], e2[2], e1[2], e2[1]) >>
        l2 == n[1] * n[1] + n[2] * n[2] + n[3] * n[3]
    IN  IF l2 > 0
        THEN <<DivByLen(n[1], z[1], l2), DivByLen(n[2], z[2], l2), DivByLen(n[3], z[3], l2)>>
        ELSE <<IntReal(0), IntReal(0), IntReal(1)>>

(***************************************************************************)
(* Float32Array element store: the four bytes, least significant first,    *)
(* of the IEEE-754 single nearest to the value.  Integers below 2^24 are   *)
(* exact and their bytes are computed.  The bit pattern of an irrational   *)
(* normal component is not computed: byte i of its word is the number      *)
(* 256 + code(value) * 4 + i, distinct for distinct values and from every  *)
(* real byte.                                                              *)
(***************************************************************************)
IsSquare(p) == \E k \in 0..p : k * k = p
ISqrt(p) == CHOOSE k \in 0..p : k * k = p

RECURSIVE Log2Floor(_)
Log2Floor(k) == IF k < 2 THEN 0 ELSE 1 + Log2Floor(k \div 2)

F32BytesOfInt(s, k) ==
    LET e    == Log2Floor(k)
        mant == (k - Pow2(e)) * Pow2(23 - e)
        ex   == e + 127
    IN  << mant % 256,
           (mant \div 256) % 256,
           (ex % 2) * 128 + (mant \div 65536),
           (IF s < 0 THEN 128 ELSE 0) + (ex \div 2) >>

F32Bytes(r) ==
    IF r.p = 0 THEN <<0, 0, 0, IF r.s < 0 THEN 128 ELSE 0>>
    ELSE IF r.q = 1 /\ IsSquare(r.p) THEN F32BytesOfInt(r.s, ISqrt(r.p))
    ELSE LET code == (r.p * 4096 + r.q) * 2 + (IF r.s < 0 THEN 1 ELSE 0)
         IN  [i \in 1..4 |-> 256 + code * 4 + (i - 1)]

(***************************************************************************)
(* exportTrianglesToSTL (exporters.ts 116-180).  The buffer is a function  *)
(* from byte offsets 0..size-1 to bytes.                                   *)
(***************************************************************************)
RangeError == "RangeError"

\* new ArrayBuffer(n): n zero bytes.
ArrayBuffer(n) == [i \in 0..(n - 1) |-> 0]

ByteLength(buf) == Cardinality(DOMAIN buf)

\* f32[num4 / 4] = r on a Float32Array over the whole buffer.  The store
\* happens only for a canonical integer index inside the array; an index
\* such as 33.5 is no element of a typed array and the store is dropped.
F32Store(buf, num4, r) ==
    IF num4 % 4 = 0 /\ (num4 \div 4) < (ByteLength(buf) \div 4)
    THEN LET b == F32Bytes(r)
         IN  [i \in DOMAIN buf |->
                 IF i \in num4..(num4 + 3) THEN b[i - num4 + 1] ELSE buf[i]]
    ELSE buf

\* new Uint32Array(buffer, at, 1)[0] = n / new Uint16Array(buffer, at, 1)[0] = n
ViewFits(buf, at, width) == at % width = 0 /\ at + width <= ByteLength(buf)

UintStore(buf, at, width, n) ==
    [i \in DOMAIN buf |->
        IF i \in at..(at + width - 1) THEN (n \div Pow2(8 * (i - at))) % 256 ELSE buf[i]]

\* The body of the loop over the triangles, for the triangle at `offset`.
WriteTriangle(buf, offset, t) ==
    LET v1 == t[1]
        v2 == t[2]
        v3 == t[3]
        n  == computeNormal(v1, v2, v3)
        w  == << n[1], n[2], n[3],
                 IntReal(v1[1]), IntReal(v1[2]), IntReal(v1[3]),
                 IntReal(v2[1]), IntReal(v2[2]), IntReal(v2[3]),
                 IntReal(v3[1]), IntReal(v3[2]), IntReal(v3[3]) >>
        Put[j \in 0..12] ==
            IF j = 0 THEN buf ELSE F32Store(Put[j - 1], offset + 4 * (j - 1), w[j])
    IN  Put[12]

RECURSIVE WriteTriangles(_, _, _, _)
WriteTriangles(buf, tris, k, offset) ==
    IF k > Len(tris) THEN [thrown |-> None, buffer |-> buf]
    ELSE LET b1 == WriteTriangle(buf, offset, tris[k])
         IN  IF ~ViewFits(b1, offset + 48, 2)
             THEN [thrown |-> RangeError, buffer |-> b1]
             ELSE WriteTriangles(UintStore(b1, offset + 48, 2, 0), tris, k + 1, offset + 50)

exportTrianglesToSTL(tris) ==
    LET triangleDataSize == 4 + Len(tris) * 50
        buffer == ArrayBuffer(80 + triangleDataSize)
    IN  IF ByteLength(buffer) % 4 # 0
        THEN \* new Float32Array(buffer): byte length is no multiple of 4
             [thrown |-> RangeError, buffer |-> ArrayBuffer(0), downloaded |-> FALSE]
        ELSE IF ~ViewFits(buffer, 80, 4)
        THEN [thrown |-> RangeError, buffer |-> ArrayBuffer(0), downloaded |-> FALSE]
        ELSE LET r == WriteTriangles(UintStore(buffer, 80, 4, Len(tris)), tris, 1, 84)
             IN  IF r.thrown # None
                 THEN [thrown |-> r.thrown, buffer |-> ArrayBuffer(0), downloaded |-> FALSE]
                 ELSE [thrown |-> None, buffer |-> r.buffer, downloaded |-> TRUE]

(***************************************************************************)
(* Inputs of the encoder: triangle lists over a pool of triangles with an  *)
(* axis normal, its mirror image, an irrational normal, a collinear triple *)
(* and a triangle with negative and larger coordinates.                    *)
(***************************************************************************)
TrianglePool ==
    { << <<0, 0, 0>>, <<1, 0, 0>>, <<0, 1, 0>> >>,
      << <<0, 0, 0>>, <<0, 1, 0>>, <<1, 0, 0>> >>,
      << <<1, 0, 0>>, <<0, 1, 0>>, <<0, 0, 1>> >>,
      << <<0, 0, 0>>, <<1, 1, 1>>, <<2, 2, 2>> >>,
      << <<2, 3, 5>>, <<-1, 0, 4>>, <<7, -2, 1>> >> }

SeqsUpTo(S, n) == UNION { [1..m -> S] : m \in 0..n }

\* A file is made of leading white space, a head and rows.  Besides its text, a
\* head records what it was written to be: whether its text meets the PLY rule and
\* the PCD rule of the detection, the vertex count and the FIELDS list it declares,
\* whether it ends with a DATA line, and the numeric tokens of each of its lines.
\* A row records its numeric tokens in order and what its first token is.
FileHead(text, ply, pcd, n, fields, data, nums) ==
    [text |-> text, ply |-> ply, pcd |-> pcd, n |-> n, fields |-> fields,
     data |-> data, nums |-> nums]

FileRow(text, nums, first, letter) ==
    [text |-> text, nums |-> nums, first |-> first, letter |-> letter]

NoFile == [lead |-> "", head |-> FileHead("", FALSE, FALSE, 0, <<>>, FALSE, <<>>), rows |-> <<>>]
NoStl == [thrown |-> None, buffer |-> ArrayBuffer(0), downloaded |-> FALSE]
NoLoader ==
    [ ran |-> <<>>, onLoad |-> FALSE, points |-> <<>>, error |-> None,
      classification |-> [label |-> None, percent |-> 0] ]
NoCls == [label |-> None, confidence |-> 0, bboxMeters |-> <<>>, points |-> 0]
NoNormal == <<>>
\* The App and its loader after mounting: nothing held, nothing shown, no file
\* selected, no export requested.
NoData == [type |-> None]
NoApp ==
    [ lidarData |-> NoData, lidarSummary |-> <<>>, error |-> None,
      classification |-> [label |-> None, percent |-> 0],
      reads |-> <<>>, alerts |-> 0, encoded |-> <<>> ]

InitSTL ==
    /\ pc = "start"
    /\ triangles \in SeqsUpTo(TrianglePool, MaxTriangles)
    /\ stl = NoStl
    /\ points = <<>> /\ maxNeighbors = DefaultMaxNeighbors /\ mesh = <<>>
    /\ file = NoFile /\ txt = "" /\ pts = <<>> /\ loader = NoLoader /\ cls = NoCls
    /\ normal = NoNormal /\ app = NoApp

ExportTrianglesToSTL ==
    /\ pc = "start"
    /\ stl' = exportTrianglesToSTL(triangles)
    /\ pc' = "done"
    /\ UNCHANGED <<triangles, points, maxNeighbors, mesh, file, txt, pts, loader, cls, normal, app>>

NextSTL == ExportTrianglesToSTL

SpecSTL == InitSTL /\ [][NextSTL]_vars

(***************************************************************************)
(* Reading the encoder's output back.                                      *)
(***************************************************************************)
U32At(buf, at) ==
    buf[at] + 256 * buf[at + 1] + 65536 * buf[at + 2] + 16777216 * buf[at + 3]

\* The 50 bytes an STL reader expects for triangle t: normal, v1, v2, v3, attribute.
Facet(t) ==
    LET n == computeNormal(t[1], t[2], t[3])
    IN  F32Bytes(n[1]) \o F32Bytes(n[2]) \o F32Bytes(n[3])
        \o F32Bytes(IntReal(t[1][1])) \o F32Bytes(IntReal(t[1][2])) \o F32Bytes(IntReal(t[1][3]))
        \o F32Bytes(IntReal(t[2][1])) \o F32Bytes(IntReal(t[2][2])) \o F32Bytes(IntReal(t[2][3]))
        \o F32Bytes(IntReal(t[3][1])) \o F32Bytes(IntReal(t[3][2])) \o F32Bytes(IntReal(t[3][3]))
        \o <<0, 0>>

\* C1: for every triangle list of length T the export completes with a buffer of
\* 80 + 4 + 50*T bytes whose bytes 80..83 hold T as a little-endian 32-bit integer
\* (for T = 1: 134 bytes, count 1, last two bytes 0).
C1_SizeAndCount ==
    pc = "done" =>
        /\ stl.thrown = None
        /\ stl.downloaded
        /\ ByteLength(stl.buffer) = 80 + 4 + 50 * Len(triangles)
        /\ U32At(stl.buffer, 80) = Len(triangles)
        /\ Len(triangles) = 1 =>
              /\ ByteLength(stl.buffer) = 134
              /\ stl.buffer[132] = 0 /\ stl.buffer[133] = 0

\* C2: in the buffer of a completed export, for every k in 0..T-1 the 50 bytes at
\* offset 84 + 50*k are the normal of triangle k, its vertices v1, v2, v3 as 32-bit
\* floats and two zero bytes, and the first 80 bytes are zero.
C2_FacetLayout ==
    (pc = "done" /\ stl.thrown = None) =>
        /\ \A i \in 0..79 : stl.buffer[i] = 0
        /\ \A k \in 0..(Len(triangles) - 1) :
              \A j \in 0..49 : stl.buffer[84 + 50 * k + j] = Facet(triangles[k + 1])[j + 1]

(***************************************************************************)
(* createSimpleMeshFromPoints (exporters.ts 76-107).  Points are numbered  *)
(* 1..n here (0..n-1 in the code).  A triangle of the mesh is kept as the  *)
(* triple of the indices of the array elements it refers to, as the code   *)
(* pushes the very elements points[i]; TrianglesOf gives their values.     *)
(* Math.hypot is compared through the exact squared distance.              *)
(***************************************************************************)
Dist2(p, q) ==
    (q[1] - p[1]) * (q[1] - p[1]) + (q[2] - p[2]) * (q[2] - p[2])
        + (q[3] - p[3]) * (q[3] - p[3])

\* points.map((q, j) => ({index: j, dist: hypot(q - p)}))
Distances(pnts, i) == [j \in 1..Len(pnts) |-> [index |-> j, dist |-> Dist2(pnts[j], pnts[i])]]

\* Array.prototype.sort is stable: x goes behind every element not larger than it.
InsertStable(sorted, x) ==
    LET k == Cardinality({m \in 1..Len(sorted) : sorted[m].dist <= x.dist})
    IN  SubSeq(sorted, 1, k) \o <<x>> \o SubSeq(sorted, k + 1, Len(sorted))

RECURSIVE SortByDist(_, _)
SortByDist(items, n) ==
    IF n = 0 THEN <<>> ELSE InsertStable(SortByDist(items, n - 1), items[n])

\* Wrong window: it starts at the first element of the sorted list.
neighborWindowFromSelf(distances, maxN) ==
    SubSeq(distances, 1, Min(maxN + 1, Len(distances)))

\* distances.slice(1, Math.min(maxNeighbors + 1, distances.length))
neighborWindow(distances, maxN) ==
    SubSeq(distances, 2, Min(maxN + 1, Len(distances)))

SortedDistances(pnts, i) == SortByDist(Distances(pnts, i), Len(pnts))

\* The triangles pushed for source point i.
Fan(pnts, i, maxN) ==
    LET neighbors == neighborWindow(SortedDistances(pnts, i), maxN)
    IN  [j \in 1..Max(Len(neighbors) - 1, 0) |->
            <<i, neighbors[j].index, neighbors[j + 1].index>>]

\* the fans of the points n, n-1, ..., 1 in that order
RECURSIVE FansLastFirst(_, _, _)
FansLastFirst(pnts, n, maxN) ==
    IF n = 0 THEN <<>> ELSE Fan(pnts, n, maxN) \o FansLastFirst(pnts, n - 1, maxN)

\* the fans of the points 1, ..., n in that order
RECURSIVE Fans(_, _, _)
Fans(pnts, n, maxN) ==
    IF n = 0 THEN <<>> ELSE Fans(pnts, n - 1, maxN) \o Fan(pnts, n, maxN)

createSimpleMeshFromPoints(pnts, maxN) ==
    IF Len(pnts) < 3 THEN <<>> ELSE Fans(pnts, Len(pnts), maxN)

TrianglesOf(pnts, m) == [k \in 1..Len(m) |-> <<pnts[m[k][1]], pnts[m[k][2]], pnts[m[k][3]]>>]

(***************************************************************************)
(* Inputs of the mesh builder: clouds over a pool of points in which       *)
(* equal and different distances and repeated points all occur, with the   *)
(* default maxNeighbors (12) and with small explicit values.               *)
(***************************************************************************)
PointPool ==
    { <<0, 0, 0>>, <<1, 0, 0>>, <<0, 1, 0>>, <<0, 0, 1>>, <<1, 1, 0>>, <<2, 0, 0>> }

NeighborChoices == {1, 2, 3, DefaultMaxNeighbors}

InitMesh ==
    /\ pc = "start"
    /\ points \in SeqsUpTo(PointPool, MaxPoints)
    /\ maxNeighbors \in NeighborChoices
    /\ mesh = <<>>
    /\ triangles = <<>> /\ stl = NoStl
    /\ file = NoFile /\ txt = "" /\ pts = <<>> /\ loader = NoLoader /\ cls = NoCls
    /\ normal = NoNormal /\ app = NoApp

CreateSimpleMeshFromPoints ==
    /\ pc = "start"
    /\ mesh' = createSimpleMeshFromPoints(points, maxNeighbors)
    /\ pc' = "done"
    /\ UNCHANGED <<triangles, stl, points, maxNeighbors, file, txt, pts, loader, cls, normal, app>>

NextMesh == CreateSimpleMeshFromPoints

SpecMesh == InitMesh /\ [][NextMesh]_vars

Range(f) == {f[k] : k \in DOMAIN f}

ThreePointDefault == Len(points) = 3 /\ maxNeighbors = DefaultMaxNeighbors

\* C3 as stated: on exactly 3 points with the default maxNeighbors the mesh has
\* exactly 1 triangle, and it contains all 3 points.
C3_OneTriangle ==
    (pc = "done" /\ ThreePointDefault) =>
        /\ Len(mesh) = 1
        /\ \A k \in 1..Len(mesh) : Range(mesh[k]) = {1, 2, 3}

\* C3 amended: on exactly 3 points with the default maxNeighbors the mesh has exactly
\* 3 triangles, the k-th with source point k as first vertex; the vertex coordinates
\* of each triangle are the coordinates of the 3 points, and when the 3 points are
\* pairwise distinct each triangle has all 3 points as its vertices.
C3_ThreeTriangles ==
    (pc = "done" /\ ThreePointDefault) =>
        /\ Len(mesh) = 3
        /\ \A k \in 1..3 :
              /\ mesh[k][1] = k
              /\ Range(TrianglesOf(points, mesh)[k]) = Range(points)
              /\ Cardinality(Range(points)) = 3 => Range(mesh[k]) = {1, 2, 3}

C3_Witness ==
    /\ pc = "done" /\ ThreePointDefault
    /\ Cardinality(Range(points)) = 3
    /\ Len(mesh) = 3

\* C4: for every cloud of at least 3 points, repeated points included, and every
\* index i, position 0 of the sorted list of i is i itself, the neighbor window
\* never contains i, and no triangle has its source point as second or third vertex.
C4_SelfExcluded ==
    (pc = "done" /\ Len(points) >= 3) =>
        /\ \A i \in 1..Len(points) :
              /\ SortedDistances(points, i)[1].index = i
              /\ \A k \in DOMAIN neighborWindow(SortedDistances(points, i), maxNeighbors) :
                    neighborWindow(SortedDistances(points, i), maxNeighbors)[k].index # i
        /\ \A k \in 1..Len(mesh) : mesh[k][2] # mesh[k][1] /\ mesh[k][3] # mesh[k][1]

(***************************************************************************)
(* Strings.  A text is a string and is processed character by character,   *)
(* as the JavaScript string methods the loader calls do.                   *)
(***************************************************************************)
Char(s, i) == SubSeq(s, i, i)
From(s, i) == SubSeq(s, i, Len(s))

Whitespace == {" ", "\t", "\n", "\r"}
DigitChars == "0123456789"
LowerChars == "abcdefghijklmnopqrstuvwxyz"
UpperChars == "ABCDEFGHIJKLMNOPQRSTUVWXYZ"

IsSpace(c) == c \in Whitespace
IsDigit(c) == \E d \in 1..10 : Char(DigitChars, d) = c
IsLetter(c) == \E d \in 1..26 : Char(LowerChars, d) = c \/ Char(UpperChars, d) = c
DigitVal(c) == (CHOOSE d \in 1..10 : Char(DigitChars, d) = c) - 1

\* String.prototype.startsWith
StartsWith(s, prefix) == Len(s) >= Len(prefix) /\ SubSeq(s, 1, Len(prefix)) = prefix

\* String.prototype.trim
RECURSIVE TrimStart(_)
TrimStart(s) == IF s # "" /\ IsSpace(Char(s, 1)) THEN TrimStart(From(s, 2)) ELSE s

RECURSIVE TrimEnd(_)
TrimEnd(s) ==
    IF s # "" /\ IsSpace(Char(s, Len(s))) THEN TrimEnd(SubSeq(s, 1, Len(s) - 1)) ELSE s

Trim(s) == TrimEnd(TrimStart(s))

\* String.prototype.toLowerCase
LowerOf(c) ==
    IF \E d \in 1..26 : Char(UpperChars, d) = c
    THEN Char(LowerChars, CHOOSE d \in 1..26 : Char(UpperChars, d) = c)
    ELSE c

\* (by halves, so that a long text does not nest deeply)
RECURSIVE ToLowerCase(_)
ToLowerCase(s) ==
    IF Len(s) = 0 THEN ""
    ELSE IF Len(s) = 1 THEN LowerOf(s)
    ELSE LET h == Len(s) \div 2
         IN  ToLowerCase(SubSeq(s, 1, h)) \o ToLowerCase(From(s, h + 1))

\* String.prototype.slice(0, n)
Slice0(s, n) == SubSeq(s, 1, Min(n, Len(s)))

Matches(c, what) ==
    IF what = "space" THEN IsSpace(c)
    ELSE IF what = "nonspace" THEN ~IsSpace(c)
    ELSE c = "\n"

\* Position of the first character of s in lo..hi of the given kind; 0 when there
\* is none (searched by halves).
RECURSIVE FirstIn(_, _, _, _)
FirstIn(s, lo, hi, what) ==
    IF lo > hi THEN 0
    ELSE IF lo = hi THEN (IF Matches(Char(s, lo), what) THEN lo ELSE 0)
    ELSE LET mid == (lo + hi) \div 2
             left == FirstIn(s, lo, mid, what)
         IN  IF left # 0 THEN left ELSE FirstIn(s, mid + 1, hi, what)

\* Position of the first character of s at or after i of the given kind;
\* Len(s) + 1 when there is none.
FirstFrom(s, i, what) ==
    LET k == FirstIn(s, i, Len(s), what) IN IF k = 0 THEN Len(s) + 1 ELSE k

NextSpace(s, i) == FirstFrom(s, i, "space")
NextNonSpace(s, i) == FirstFrom(s, i, "nonspace")
NextNewline(s, i) == FirstFrom(s, i, "newline")

\* text.split(/\r?\n/)
RECURSIVE SplitLines(_)
SplitLines(s) ==
    LET n == NextNewline(s, 1)
    IN  IF n > Len(s) THEN <<s>>
        ELSE LET e == IF n > 1 /\ Char(s, n - 1) = "\r" THEN n - 2 ELSE n - 1
             IN  <<SubSeq(s, 1, e)>> \o SplitLines(From(s, n + 1))

\* s.split(/\s+/)
RECURSIVE SplitWs(_)
SplitWs(s) ==
    LET n == NextSpace(s, 1)
    IN  IF n > Len(s) THEN <<s>>
        ELSE <<SubSeq(s, 1, n - 1)>> \o SplitWs(From(s, NextNonSpace(s, n)))

(***************************************************************************)
(* JavaScript values of the parsers: a number, NaN or undefined.  A number *)
(* is the decimal v / 10^d, kept with the fewest decimals d; the texts of  *)
(* the model hold decimal numerals with an optional sign, an optional      *)
(* fraction (1.5) and an optional exponent (1e1); a token of any other     *)
(* shape over the model's alphabet (letters, digits, # . _ ; -) is no      *)
(* number.                                                                 *)
(***************************************************************************)
Num(v) == [t |-> "number", v |-> v, d |-> 0]
NaN == [t |-> "NaN", v |-> 0, d |-> 0]
Undefined == [t |-> "undefined", v |-> 0, d |-> 0]

IsNaN(x) == x.t = "NaN"

AllDigits(s) == s # "" /\ \A i \in 1..Len(s) : IsDigit(Char(s, i))

RECURSIVE DigitsValue(_)
DigitsValue(s) ==
    IF s = "" THEN 0 ELSE 10 * DigitsValue(SubSeq(s, 1, Len(s) - 1)) + DigitVal(Char(s, Len(s)))

RECURSIVE Pow10(_)
Pow10(n) == IF n = 0 THEN 1 ELSE 10 * Pow10(n - 1)

\* Length of the longest prefix of s made of digits.
RECURSIVE DigitPrefix(_)
DigitPrefix(s) == IF s # "" /\ IsDigit(Char(s, 1)) THEN 1 + DigitPrefix(From(s, 2)) ELSE 0

\* The number m / 10^d with the fewest decimals.
RECURSIVE Decimal(_, _)
Decimal(m, d) ==
    IF d = 0 \/ m = 0 THEN Num(m)
    ELSE IF m % 10 = 0 THEN Decimal(m \div 10, d - 1)
    ELSE [t |-> "number", v |-> m, d |-> d]

\* The exponent part of a numeral: "" or e/E, an optional sign and digits.
ExponentOf(rest) ==
    IF rest = "" THEN Num(0)
    ELSE IF Char(rest, 1) \notin {"e", "E"} THEN NaN
    ELSE LET r == From(rest, 2)
             signed == r # "" /\ Char(r, 1) \in {"+", "-"}
             digits == IF signed THEN From(r, 2) ELSE r
         IN  IF ~AllDigits(digits) THEN NaN
             ELSE IF signed /\ Char(r, 1) = "-" THEN Num(0 - DigitsValue(digits))
             ELSE Num(DigitsValue(digits))

\* Number(s) for a string s
UnsignedNumber(s) ==
    LET i == DigitPrefix(s)
        dot == i < Len(s) /\ Char(s, i + 1) = "."
        f == IF dot THEN DigitPrefix(From(s, i + 2)) ELSE 0
        used == i + f + (IF dot THEN 1 ELSE 0)
        m == DigitsValue(SubSeq(s, 1, i) \o SubSeq(s, i + 2, i + 1 + f))
        x == ExponentOf(From(s, used + 1))
    IN  IF i + f = 0 \/ IsNaN(x) THEN NaN
        ELSE IF x.v >= f THEN Num(m * Pow10(x.v - f))
        ELSE Decimal(m, f - x.v)

Number(str) ==
    LET s == Trim(str)
    IN  IF s = "" THEN Num(0)
        ELSE IF Char(s, 1) = "-"
             THEN LET u == UnsignedNumber(From(s, 2))
                  IN  IF IsNaN(u) THEN NaN ELSE [u EXCEPT !.v = 0 - u.v]
        ELSE IF Char(s, 1) = "+" THEN UnsignedNumber(From(s, 2))
        ELSE UnsignedNumber(s)

\* parseInt(parts[k], 10), where parts[k] may be undefined
ParseInt(parts, k) ==
    IF k > Len(parts) THEN NaN
    ELSE LET s == TrimStart(parts[k])
             neg == s # "" /\ Char(s, 1) = "-"
             u == IF s # "" /\ Char(s, 1) \in {"-", "+"} THEN From(s, 2) ELSE s
             d == DigitPrefix(u)
         IN  IF d = 0 THEN NaN
             ELSE Num((IF neg THEN -1 ELSE 1) * DigitsValue(SubSeq(u, 1, d)))

\* a[k] of a JavaScript array, k counted from 1: undefined outside the array
At(a, k) == IF k \in 1..Len(a) THEN a[k] ELSE Undefined

\* a.map(Number)
MapNumber(a) == [k \in 1..Len(a) |-> Number(a[k])]

\* a.filter(n => !Number.isNaN(n))
RECURSIVE FilterNotNaN(_)
FilterNotNaN(a) ==
    IF a = <<>> THEN <<>>
    ELSE (IF IsNaN(a[1]) THEN <<>> ELSE <<a[1]>>) \o FilterNotNaN(Tail(a))

\* /[a-z]/i.test(s)
HasLetter(s) == \E i \in 1..Len(s) : IsLetter(Char(s, i))

\* a.indexOf(x), counted from 1; 0 when x is no element (the code's -1)
IndexOf(a, x) ==
    IF \E k \in 1..Len(a) : a[k] = x THEN CHOOSE k \in 1..Len(a) :
        a[k] = x /\ \A m \in 1..(k - 1) : a[m] # x
    ELSE 0

(***************************************************************************)
(* Natural numbers of any size, for the 53-bit significands of JavaScript  *)
(* numbers: sequences of limbs below 2^14, least significant limb first,   *)
(* without a leading zero limb (0 is the empty sequence).                  *)
(***************************************************************************)
LimbBits == 14
Limb == 2^14

BNorm[a \in Seq(Nat)] ==
    IF a # <<>> /\ a[Len(a)] = 0 THEN BNorm[SubSeq(a, 1, Len(a) - 1)] ELSE a

BFromInt[i \in Nat] == IF i = 0 THEN <<>> ELSE <<i % Limb>> \o BFromInt[i \div Limb]

BToInt[a \in Seq(Nat)] == IF a = <<>> THEN 0 ELSE a[1] + Limb * BToInt[Tail(a)]

LimbAt(a, k) == IF k \in 1..Len(a) THEN a[k] ELSE 0

\* sign of a - b, decided by the limbs k, k - 1, ..., 1
BCmpFrom[a \in Seq(Nat), b \in Seq(Nat), k \in Nat] ==
    IF k = 0 THEN 0
    ELSE IF LimbAt(a, k) < LimbAt(b, k) THEN -1
    ELSE IF LimbAt(a, k) > LimbAt(b, k) THEN 1
    ELSE BCmpFrom[a, b, k - 1]

BCmp[a \in Seq(Nat), b \in Seq(Nat)] == BCmpFrom[a, b, Max(Len(a), Len(b))]

\* the limbs of a + b from limb k on, with the carry into limb k
BAddFrom[a \in Seq(Nat), b \in Seq(Nat), k \in Nat, carry \in Nat] ==
    IF k > Len(a) /\ k > Len(b) THEN (IF carry = 0 THEN <<>> ELSE <<carry>>)
    ELSE <<(LimbAt(a, k) + LimbAt(b, k) + carry) % Limb>>
            \o BAddFrom[a, b, k + 1, (LimbAt(a, k) + LimbAt(b, k) + carry) \div Limb]

BAdd[a \in Seq(Nat), b \in Seq(Nat)] == BAddFrom[a, b, 1, 0]

\* the limbs of a - b from limb k on, with the borrow from limb k
BSubFrom[a \in Seq(Nat), b \in Seq(Nat), k \in Nat, borrow \in Nat] ==
    IF k > Len(a) THEN <<>>
    ELSE IF LimbAt(a, k) - LimbAt(b, k) - borrow < 0
    THEN <<LimbAt(a, k) - LimbAt(b, k) - borrow + Limb>> \o BSubFrom[a, b, k + 1, 1]
    ELSE <<LimbAt(a, k) - LimbAt(b, k) - borrow>> \o BSubFrom[a, b, k + 1, 0]

\* a - b for a >= b
BSub[a \in Seq(Nat), b \in Seq(Nat)] == BNorm[BSubFrom[a, b, 1, 0]]

\* the limbs of a * m from limb k on, with the carry into limb k
BMulSmallFrom[a \in Seq(Nat), m \in Nat, k \in Nat, carry \in Nat] ==
    IF k > Len(a) THEN BFromInt[carry]
    ELSE <<(a[k] * m + carry) % Limb>> \o BMulSmallFrom[a, m, k + 1, (a[k] * m + carry) \div Limb]

\* a * m for m < 2^16
BMulSmall[a \in Seq(Nat), m \in Nat] == BNorm[BMulSmallFrom[a, m, 1, 0]]

\* Long division by q < 2^16: the quotient limbs k, k - 1, ..., 1 are put in front of
\* quot, r is the remainder of the limbs above k.
BDivSmallFrom[a \in Seq(Nat), q \in Nat, k \in Nat, r \in Nat, quot \in Seq(Nat)] ==
    IF k = 0 THEN [quot |-> BNorm[quot], rem |-> r]
    ELSE BDivSmallFrom[a, q, k - 1, (r * Limb + a[k]) % q,
                       <<(r * Limb + a[k]) \div q>> \o quot]

BDivSmall[a \in Seq(Nat), q \in Nat] == BDivSmallFrom[a, q, Len(a), 0, <<>>]

\* a * 2^k
BShl[a \in Seq(Nat), k \in Nat] ==
    IF a = <<>> THEN <<>>
    ELSE [i \in 1..(k \div LimbBits) |-> 0] \o BMulSmall[a, 2^(k % LimbBits)]

\* floor(a / 2^k)
BShr[a \in Seq(Nat), k \in Nat] ==
    IF k \div LimbBits >= Len(a) THEN <<>>
    ELSE BDivSmall[SubSeq(a, (k \div LimbBits) + 1, Len(a)), 2^(k % LimbBits)].quot

IntBitLen[i \in Nat] == IF i = 0 THEN 0 ELSE 1 + IntBitLen[i \div 2]

BBitLen[a \in Seq(Nat)] ==
    IF a = <<>> THEN 0 ELSE LimbBits * (Len(a) - 1) + IntBitLen[a[Len(a)]]

BOdd(a) == a # <<>> /\ a[1] % 2 = 1

(***************************************************************************)
(* JavaScript numbers are IEEE-754 binary64.  A finite one is              *)
(* [inf |-> FALSE, s, n, e] with the value s * n * 2^e, where s is 1 or -1 *)
(* and n is 0 or has exactly 53 bits.  Every operation rounds its exact    *)
(* result to the nearest such number, ties to the even significand.  The   *)
(* magnitudes that occur here stay far from overflow and from the          *)
(* subnormal range.                                                        *)
(***************************************************************************)
SignificandBits == 53

Binary64 == [inf : BOOLEAN, s : {-1, 1}, n : Seq(Nat), e : Int]

\* exact signed values n * 2^e, and the results of a division
Dyadic == [s : {-1, 1}, n : Seq(Nat), e : Int]
Quotient == [quot : Seq(Nat), rem : Nat]

Zero64 == [inf |-> FALSE, s |-> 1, n |-> <<>>, e |-> 0]
NegInf64 == [inf |-> TRUE, s |-> -1, n |-> <<>>, e |-> 0]

\* n is cut to its leading 53 bits m, sh bits are dropped: whether m is rounded up
RoundsUp[n \in Seq(Nat), m \in Seq(Nat), sh \in Nat, sticky \in BOOLEAN] ==
    LET half == BCmp[BShl[BSub[n, BShl[m, sh]], 1], BShl[<<1>>, sh]]
    IN  half > 0 \/ (half = 0 /\ (sticky \/ BOdd(m)))

\* s * r * 2^e for a rounded significand r of 53 bits, or of 54 bits after a carry
Carried64[s \in {-1, 1}, r \in Seq(Nat), e \in Int] ==
    IF BBitLen[r] > SignificandBits
    THEN [inf |-> FALSE, s |-> s, n |-> BShr[r, 1], e |-> e + 1]
    ELSE [inf |-> FALSE, s |-> s, n |-> r, e |-> e]

\* Round64 for an n of more than 53 bits, m its leading 53 bits
Nearest64[s \in {-1, 1}, n \in Seq(Nat), m \in Seq(Nat), sh \in Nat, e \in Int, sticky \in BOOLEAN] ==
    Carried64[s, IF RoundsUp[n, m, sh, sticky] THEN BAdd[m, <<1>>] ELSE m, e + sh]

\* Round64 for an n # 0 of len bits
Fit64[s \in {-1, 1}, n \in Seq(Nat), e \in Int, sticky \in BOOLEAN, len \in Nat] ==
    IF len <= SignificandBits
    THEN [inf |-> FALSE, s |-> s, n |-> BShl[n, SignificandBits - len],
          e |-> e - (SignificandBits - len)]
    ELSE Nearest64[s, n, BShr[n, len - SignificandBits], len - SignificandBits, e, sticky]

\* The binary64 nearest to s * (n + f) * 2^e, where 0 <= f < 1 and f > 0 iff sticky
\* (sticky only with an n of more than 53 bits).
Round64[s \in {-1, 1}, n \in Seq(Nat), e \in Int, sticky \in BOOLEAN] ==
    IF n = <<>> THEN Zero64 ELSE Fit64[s, n, e, sticky, BBitLen[n]]

\* s * (x - y) * 2^e or s * (x + y) * 2^e, exactly
Combine[s \in {-1, 1}, x \in Seq(Nat), y \in Seq(Nat), e \in Int, add \in BOOLEAN] ==
    IF add THEN [s |-> s, n |-> BAdd[x, y], e |-> e]
    ELSE IF BCmp[x, y] >= 0 THEN [s |-> s, n |-> BSub[x, y], e |-> e]
    ELSE [s |-> 0 - s, n |-> BSub[y, x], e |-> e]

\* The exact a - b of two finite numbers, as sign, magnitude and exponent.
Diff64[a \in Binary64, b \in Binary64] ==
    Combine[a.s, BShl[a.n, a.e - Min(a.e, b.e)], BShl[b.n, b.e - Min(a.e, b.e)],
            Min(a.e, b.e), a.s # b.s]

Rounded[d \in Dyadic] == Round64[d.s, d.n, d.e, FALSE]

Negative[d \in Dyadic] == d.n # <<>> /\ d.s = -1

\* a - b
Sub64[a \in Binary64, b \in Binary64] == Rounded[Diff64[a, b]]

\* a < b
Less64[a \in Binary64, b \in Binary64] == Negative[Diff64[a, b]]

\* s * (d.quot + f) * 2^e rounded, where f > 0 iff the division left a remainder
RoundQuot[s \in {-1, 1}, d \in Quotient, e \in Int] ==
    Round64[s, d.quot, e, d.rem # 0]

\* a / q for an integer 0 < q < 2^10
DivSmall64[a \in Binary64, q \in Nat] ==
    IF a.n = <<>> THEN a ELSE RoundQuot[a.s, BDivSmall[BShl[a.n, 13], q], a.e - 13]

\* Restoring division: k more bits of the quotient q, with r the remainder so far
\* (doubled); at the end the quotient and whether a remainder is left.
QuotBits[r \in Seq(Nat), d \in Seq(Nat), q \in Seq(Nat), k \in Nat] ==
    IF k = 0 THEN [quot |-> q, rem |-> IF r = <<>> THEN 0 ELSE 1]
    ELSE IF BCmp[r, d] >= 0
    THEN QuotBits[BShl[BSub[r, d], 1], d, BAdd[BShl[q, 1], <<1>>], k - 1]
    ELSE QuotBits[BShl[r, 1], d, BShl[q, 1], k - 1]

\* a / b for b # 0
Div64[a \in Binary64, b \in Binary64] ==
    IF a.n = <<>> THEN Zero64
    ELSE RoundQuot[a.s * b.s, QuotBits[a.n, b.n, <<>>, 56], a.e - b.e - 55]

\* The number a decimal numeral denotes: the binary64 nearest to v / 1000.
Decimal64[v \in Int] ==
    IF v = 0 THEN Zero64
    ELSE RoundQuot[IF v < 0 THEN -1 ELSE 1, BDivSmall[BShl[BFromInt[Abs(v)], 66], 1000], -66]

\* floor(t * 2^k) for any integer k
Scaled[t \in Seq(Nat), k \in Int] == IF k >= 0 THEN BShl[t, k] ELSE BShr[t, 0 - k]

\* Number(x.toFixed(3)) in thousandths: the integer nearest to 1000 * x, the larger
\* one of two
ToFixed3[x \in Binary64] ==
    x.s * BToInt[BShr[BAdd[Scaled[BMulSmall[x.n, 1000], x.e + 1], <<1>>], 1]]

(***************************************************************************)
(* classifyPointCloud (limbClassifier.ts 12-59).  A coordinate             *)
(* [t |-> "number", v |-> c] is the number that the numeral c / 1000       *)
(* denotes.  Extents and lengths in metres (lengthM, widthM, depthM) are   *)
(* binary64 numbers, computed with the rounding of every operation.  The   *)
(* confidence is a sum of multiples of 0.05 and of the density boost; it   *)
(* is counted in millionths, which toFixed(2) rounds to the same           *)
(* hundredth as the floating-point sum.  The result holds the confidence   *)
(* in hundredths (toFixed(2)) and the box in thousandths (toFixed(3)).  A  *)
(* coordinate that is NaN or undefined fails every comparison of the       *)
(* bounding-box loop; an axis without any number has the extent            *)
(* -Infinity - Infinity = -Infinity.                                       *)
(***************************************************************************)
NegInf == [t |-> "-Infinity", v |-> 0, d |-> 0]

IsNum(x) == x.t = "number"

SetMax(S) == CHOOSE m \in S : \A x \in S : x <= m
SetMin(S) == CHOOSE m \in S : \A x \in S : m <= x

\* maxA - minA after the loop over the points, for axis a.  Numerals in increasing
\* order denote numbers in increasing order, so the loop ends with the numbers of
\* the least and of the greatest numeral.
AxisExtent(pnts, a) ==
    LET vs == {pnts[k][a].v : k \in {m \in 1..Len(pnts) : IsNum(pnts[m][a])}}
    IN  IF vs = {} THEN NegInf64 ELSE Sub64[Decimal64[SetMax(vs)], Decimal64[SetMin(vs)]]

\* a <= b on extents
ExtLeq(a, b) == a.inf \/ (~b.inf /\ ~Less64[b, a])

\* [dx, dy, dz].sort((a, b) => a - b)
SortExtents[d \in Seq(Binary64)] ==
    CHOOSE r \in {<<d[1], d[2], d[3]>>, <<d[1], d[3], d[2]>>, <<d[2], d[1], d[3]>>,
                 <<d[2], d[3], d[1]>>, <<d[3], d[1], d[2]>>, <<d[3], d[2], d[1]>>} :
        ExtLeq(r[1], r[2]) /\ ExtLeq(r[2], r[3])

\* let scale = 1; if (longest > 5) scale = 1000
UnitScale(longest) == IF ~longest.inf /\ Less64[Decimal64[5000], longest] THEN 1000 ELSE 1

\* extent / scale
Meters(ext, scale) == IF ext.inf \/ scale = 1 THEN ext ELSE DivSmall64[ext, scale]

\* lengthM < bound, for the literal bound / 1000
Below(lengthM, bound) == lengthM.inf \/ Less64[lengthM, Decimal64[bound]]

\* label and confidence (in millionths) of the length thresholds
BaseClass(lengthM) ==
    IF Below(lengthM, 60) THEN [label |-> "finger", confidence |-> 450000]
    ELSE IF Below(lengthM, 250) THEN [label |-> "hand", confidence |-> 600000]
    ELSE IF Below(lengthM, 550) THEN [label |-> "forearm", confidence |-> 800000]
    ELSE IF Below(lengthM, 900) THEN [label |-> "upper arm", confidence |-> 600000]
    ELSE [label |-> "leg", confidence |-> 700000]

\* Wrong clamp: the confidence is not capped.
NoClamp(c) == c

\* Math.min(1, c), in millionths
Clamp(c) == Min(1000000, c)

\* const ratio = widthM / lengthM
Ratio[widthM \in Binary64, lengthM \in Binary64] ==
    IF widthM.inf THEN NegInf64 ELSE Div64[widthM, lengthM]

\* the two ratio adjustments of the confidence, in millionths
RatioAdjust[confidence \in Int, ratio \in Binary64] ==
    LET thin   == ratio.inf \/ Less64[ratio, Decimal64[250]]
        blobby == ~ratio.inf /\ Less64[Decimal64[600], ratio]
        c1 == IF thin THEN Clamp(confidence + 150000) ELSE confidence
    IN  IF blobby THEN Clamp(c1 - 200000) ELSE c1

\* if (lengthM > 0) { ... }
ShapeAdjust(confidence, lengthM, widthM) ==
    IF ~lengthM.inf /\ Less64[Zero64, lengthM]
    THEN RatioAdjust[confidence, Ratio[widthM, lengthM]]
    ELSE confidence

\* Math.log10(n) / 10 in millionths, for the n that stay below the cap of 0.15
Log10Tenth ==
    << 0, 30103, 47712, 60206, 69897, 77815, 84510, 90309, 95424, 100000, 104139,
       107918, 111394, 114613, 117609, 120412, 123045, 125527, 127875, 130103,
       132222, 134242, 136173, 138021, 139794, 141497, 143136, 144716, 146240,
       147712, 149136 >>

\* Math.min(0.15, Math.log10(Math.max(1, n)) / 10)
DensityBoost(n) ==
    LET m == Max(1, n)
    IN  IF m <= Len(Log10Tenth) THEN Min(150000, Log10Tenth[m]) ELSE 150000

\* Number(x.toFixed(d)): x in millionths rounded to multiples of `unit` millionths
ToFixed(x, unit) ==
    IF x >= 0 THEN (x + unit \div 2) \div unit ELSE 0 - ((unit \div 2 - x) \div unit)

\* Number(m.toFixed(3)), in thousandths
BoxField(m) == IF m.inf THEN NegInf ELSE Num(ToFixed3[m])

NoBox == <<>>

\* Lines 33-58, once the three lengths in metres are known.
Labelled[lengthM \in Binary64, widthM \in Binary64, depthM \in Binary64, n \in Nat] ==
    [ label |-> BaseClass(lengthM).label,
      confidence |->
          ToFixed(Clamp(ShapeAdjust(BaseClass(lengthM).confidence, lengthM, widthM)
                            + DensityBoost(n)), 10000),
      bboxMeters |-> <<BoxField(lengthM), BoxField(widthM), BoxField(depthM)>>,
      points |-> n ]

\* Lines 25-58, once the extents are sorted and the scale is chosen.
Scaled3[sorted \in Seq(Binary64), scale \in Nat, n \in Nat] ==
    Labelled[Meters(sorted[3], scale), Meters(sorted[1], scale), Meters(sorted[2], scale), n]

\* Lines 25-58, for the extents in increasing order.
Measured[sorted \in Seq(Binary64), n \in Nat] == Scaled3[sorted, UnitScale(sorted[3]), n]

classifyPointCloud(pnts) ==
    IF Len(pnts) = 0
    THEN [label |-> "unknown", confidence |-> 0, bboxMeters |-> NoBox, points |-> 0]
    ELSE Measured[SortExtents[<<AxisExtent(pnts, 1), AxisExtent(pnts, 2), AxisExtent(pnts, 3)>>],
                  Len(pnts)]

(***************************************************************************)
(* parsePlyAscii (LiDARLoader.tsx 127-154).  Lines are numbered 1..n here  *)
(* (0..n-1 in the code).                                                   *)
(***************************************************************************)
\* parseInt(parts[2], 10) || 0
VertexCountOf(l) ==
    LET n == ParseInt(SplitWs(l), 3) IN IF IsNaN(n) THEN 0 ELSE n.v

\* The header loop from line i on: the line after end_header and the vertex count.
RECURSIVE PlyHeader(_, _, _)
PlyHeader(lines, i, vertexCount) ==
    IF i > Len(lines) THEN [i |-> i, vertexCount |-> vertexCount]
    ELSE LET l == Trim(lines[i])
             vc == IF StartsWith(l, "element vertex") THEN VertexCountOf(l) ELSE vertexCount
         IN  IF l = "end_header" THEN [i |-> i + 1, vertexCount |-> vc]
             ELSE PlyHeader(lines, i + 1, vc)

\* Wrong blank-row step: the blank line uses up one of the vertexCount slots.
BlankRowSlotConsumed(c) == c + 1

\* if (!row) { c--; continue; } followed by the loop's c++
BlankRowSlot(c) == (c - 1) + 1

\* The vertex loop at line i with counter c.
RECURSIVE PlyVertices(_, _, _, _, _)
PlyVertices(lines, i, c, vertexCount, acc) ==
    IF ~(c < vertexCount /\ i <= Len(lines)) THEN acc
    ELSE LET row == Trim(lines[i])
         IN  IF row = "" THEN PlyVertices(lines, i + 1, BlankRowSlot(c), vertexCount, acc)
             ELSE LET p == MapNumber(SplitWs(row))
                  IN  PlyVertices(lines, i + 1, c + 1, vertexCount,
                          IF Len(p) >= 3 THEN Append(acc, <<p[1], p[2], p[3]>>) ELSE acc)

parsePlyAscii(text) ==
    LET lines == SplitLines(text)
    IN  IF ~StartsWith(lines[1], "ply") THEN <<>>
        ELSE LET h == PlyHeader(lines, 2, 0)
             IN  PlyVertices(lines, h.i, 0, h.vertexCount, <<>>)

(***************************************************************************)
(* parsePcdAscii (LiDARLoader.tsx 160-189).                                *)
(***************************************************************************)
\* The header loop from line i on: the first data line and the FIELDS list.
RECURSIVE PcdHeader(_, _, _)
PcdHeader(lines, i, fields) ==
    IF i > Len(lines) THEN [dataStart |-> 1, fields |-> fields]
    ELSE LET l == Trim(lines[i])
         IN  IF l = "" THEN PcdHeader(lines, i + 1, fields)
             ELSE LET parts == SplitWs(l)
                      key == ToLowerCase(parts[1])
                      f == IF key = "fields" THEN Tail(parts) ELSE fields
                  IN  IF key = "data" THEN [dataStart |-> i + 1, fields |-> f]
                      ELSE PcdHeader(lines, i + 1, f)

\* Wrong selection: the FIELDS list is ignored.
PcdPointFirstThree(vals, fields) == <<vals[1], vals[2], vals[3]>>

\* The point of a data row with numeric tokens vals (at least 3).
PcdPoint(vals, fields) ==
    LET xi == IndexOf(fields, "x")
        yi == IndexOf(fields, "y")
        zi == IndexOf(fields, "z")
    IN  IF Len(fields) >= 3 /\ xi >= 1 /\ yi >= 1 /\ zi >= 1
        THEN <<At(vals, xi), At(vals, yi), At(vals, zi)>>
        ELSE <<vals[1], vals[2], vals[3]>>

RECURSIVE PcdRows(_, _, _, _)
PcdRows(lines, i, fields, acc) ==
    IF i > Len(lines) THEN acc
    ELSE LET l == Trim(lines[i])
         IN  IF l = "" THEN PcdRows(lines, i + 1, fields, acc)
             ELSE LET vals == FilterNotNaN(MapNumber(SplitWs(l)))
                  IN  PcdRows(lines, i + 1, fields,
                          IF Len(vals) < 3 THEN acc ELSE Append(acc, PcdPoint(vals, fields)))

parsePcdAscii(text) ==
    LET lines == SplitLines(text)
        h == PcdHeader(lines, 1, <<>>)
    IN  PcdRows(lines, h.dataStart, h.fields, <<>>)

(***************************************************************************)
(* The XYZ fallback of readPointCloudFile (LiDARLoader.tsx 105-113).       *)
(***************************************************************************)
\* Wrong skip rule: a line is skipped when its first token is no number.
XyzSkipsNonNumeric(s) == StartsWith(s, "#") \/ IsNaN(Number(SplitWs(s)[1]))

\* s.startsWith('#') || /[a-z]/i.test(s.split(/\s+/)[0])
XyzSkips(s) == StartsWith(s, "#") \/ HasLetter(SplitWs(s)[1])

RECURSIVE XyzRows(_, _, _)
XyzRows(lines, i, acc) ==
    IF i > Len(lines) THEN acc
    ELSE LET s == Trim(lines[i])
         IN  IF s = "" \/ XyzSkips(s) THEN XyzRows(lines, i + 1, acc)
             ELSE LET parts == FilterNotNaN(MapNumber(SplitWs(s)))
                  IN  XyzRows(lines, i + 1,
                          IF Len(parts) >= 3
                          THEN Append(acc, <<parts[1], parts[2], parts[3]>>) ELSE acc)

parseXyz(text) == XyzRows(SplitLines(text), 1, <<>>)

(***************************************************************************)
(* readPointCloudFile (LiDARLoader.tsx 75-121) on the text of the file.    *)
(***************************************************************************)
\* /pcd\s+v?\d/.test(s)
PcdPattern(s) ==
    \E i \in 1..Len(s) :
        /\ i + 3 <= Len(s)
        /\ SubSeq(s, i, i + 2) = "pcd"
        /\ IsSpace(Char(s, i + 3))
        /\ LET k == NextNonSpace(s, i + 3)
           IN  \/ k <= Len(s) /\ IsDigit(Char(s, k))
               \/ k + 1 <= Len(s) /\ Char(s, k) = "v" /\ IsDigit(Char(s, k + 1))

LooksLikePly(text) == StartsWith(Trim(text), "ply")

LooksLikePcd(text) ==
    \/ StartsWith(ToLowerCase(Trim(text)), "# .pcd")
    \/ PcdPattern(ToLowerCase(Slice0(Trim(text), 200)))

\* Wrong order: the PCD rule is tried before the PLY rule.
DetectWrongOrder(text) ==
    IF LooksLikePcd(text) THEN "pcd" ELSE IF LooksLikePly(text) THEN "ply" ELSE "xyz"

\* The parser the detection order commits to.
Detect(text) ==
    IF LooksLikePly(text) THEN "ply" ELSE IF LooksLikePcd(text) THEN "pcd" ELSE "xyz"

ErrorPly == "PLY file parsed but contains no vertex data."
ErrorPcd == "PCD file parsed but contains no point data."
ErrorXyz == "No point data found in file."

\* The coordinates handed to the classifier, in its thousandths (the texts
\* of the model carry at most three decimals).
Thousandths(x) == IF IsNum(x) THEN Num(x.v * Pow10(3 - x.d)) ELSE x

InThousandths(pnts) == [k \in 1..Len(pnts) |-> [a \in 1..3 |-> Thousandths(pnts[k][a])]]

\* `${cls.label} - ${Math.round(cls.confidence * 100)}%`
ClassificationText(c) == [label |-> c.label, percent |-> c.confidence]

NoClassification == [label |-> None, percent |-> 0]

readPointCloudFile(text) ==
    LET kind == Detect(text)
        parsed == IF kind = "ply" THEN parsePlyAscii(text)
                  ELSE IF kind = "pcd" THEN parsePcdAscii(text)
                  ELSE parseXyz(text)
    IN  IF Len(parsed) = 0
        THEN [ ran |-> <<kind>>, onLoad |-> FALSE, points |-> <<>>,
               error |-> IF kind = "ply" THEN ErrorPly
                         ELSE IF kind = "pcd" THEN ErrorPcd ELSE ErrorXyz,
               classification |-> NoClassification ]
        ELSE [ ran |-> <<kind>>, onLoad |-> TRUE, points |-> parsed, error |-> None,
               classification |->
                   ClassificationText(classifyPointCloud(InThousandths(parsed))) ]

(***************************************************************************)
(* Files.                                                                  *)
(***************************************************************************)
MaxRows == 4
MaxLoadRows == 2

RECURSIVE JoinRows(_)
JoinRows(rows) == IF rows = <<>> THEN "" ELSE rows[1].text \o "\n" \o JoinRows(Tail(rows))

FileText(f) == f.lead \o f.head.text \o JoinRows(f.rows)

DigitText(n) == Char(DigitChars, n + 1)

PlyHead(n) ==
    FileHead("ply\nformat ascii 1.0\nelement vertex " \o DigitText(n)
             \o "\nproperty float x\nend_header\n",
         TRUE, FALSE, n, <<>>, FALSE, <<>>)

\* A PLY file whose comment line also meets the PCD pattern.
PlyPcdHead(n) ==
    FileHead("ply\ncomment made by pcd 7\nelement vertex " \o DigitText(n) \o "\nend_header\n",
         TRUE, TRUE, n, <<>>, FALSE, <<>>)

PcdHead(first, fieldsLine, fields) ==
    FileHead(first \o "\n" \o fieldsLine \o "\nDATA ascii\n", FALSE, TRUE, 0, fields, TRUE, <<>>)

Fifty == "--------------------------------------------------"
LongComment == "# " \o Fifty \o Fifty \o Fifty \o Fifty

PcdHeads ==
    { PcdHead("# .PCD v7 - Point Cloud Data", "FIELDS x y z", <<"x", "y", "z">>),
      PcdHead("# .pcd v7", "FIELDS y x z", <<"y", "x", "z">>),
      PcdHead("# made by PCD 7", "fields i x y z", <<"i", "x", "y", "z">>),
      PcdHead("# .PCD v7", "FIELDS X Y Z", <<"X", "Y", "Z">>),
      PcdHead("# .PCD v7", "FIELDS x y", <<"x", "y">>),
      PcdHead("# .PCD v7", "SIZE 4 4 4", <<>>),
      \* no DATA line: every line of the file is read as a data row
      FileHead("# .PCD v7\nFIELDS z y x\nSIZE 4 4 4\n", FALSE, TRUE, 0, <<"z", "y", "x">>,
           FALSE, << <<>>, <<>>, <<4, 4, 4>> >>) }

XyzHeads ==
    { FileHead("", FALSE, FALSE, 0, <<>>, FALSE, <<>>),
      FileHead("# comment\n", FALSE, FALSE, 0, <<>>, FALSE, << <<>> >>),
      FileHead("header info\n", FALSE, FALSE, 0, <<>>, FALSE, << <<>> >>),
      \* pcd directly followed by the digit, and pcd beyond the first 200 characters
      FileHead("# pcd7 data\n", FALSE, FALSE, 0, <<>>, FALSE, << <<>> >>),
      FileHead(LongComment \o " pcd 7\n", FALSE, FALSE, 0, <<>>, FALSE, << <<>> >>) }

DetectHeads ==
    { PcdHead("# .PCD v7 - Point Cloud Data", "FIELDS x y z", <<"x", "y", "z">>),
      PcdHead("# made by PCD 7", "FIELDS y x z", <<"y", "x", "z">>),
      \* the white space between pcd and the version is a line break
      FileHead("pcd\nv7\n", FALSE, TRUE, 0, <<>>, FALSE, << <<>>, <<>> >>) }

LeadPool == {"", "\n", "  "}

BlankRow == FileRow("", <<>>, "blank", FALSE)
SpacesRow == FileRow("  ", <<>>, "blank", FALSE)

PlyRowPool ==
    { FileRow("1 2 3", <<1, 2, 3>>, "number", FALSE),
      FileRow(" 4 5 6", <<4, 5, 6>>, "number", FALSE),
      FileRow("7 8", <<7, 8>>, "number", FALSE),
      BlankRow, SpacesRow }

PcdRowPool ==
    { FileRow("1 2 3", <<1, 2, 3>>, "number", FALSE),
      FileRow("4 5 6 7", <<4, 5, 6, 7>>, "number", FALSE),
      FileRow("7 8", <<7, 8>>, "number", FALSE),
      FileRow("1 a 2 3", <<1, 2, 3>>, "number", FALSE),
      BlankRow }

LoadRowPool ==
    { FileRow("1 2 3", <<1, 2, 3>>, "number", FALSE),
      FileRow("4 5 6 7", <<4, 5, 6, 7>>, "number", FALSE),
      FileRow("7 8", <<7, 8>>, "number", FALSE),
      FileRow("a 1 2 3", <<1, 2, 3>>, "letter", TRUE),
      FileRow("; 1 2 3", <<1, 2, 3>>, "other", FALSE),
      FileRow("1e1 2 3", <<10, 2, 3>>, "number", TRUE),
      FileRow("# 9 9 9", <<9, 9, 9>>, "hash", FALSE),
      BlankRow }

PlyFiles ==
    [lead : {""}, head : {PlyHead(n) : n \in 0..MaxRows}, rows : SeqsUpTo(PlyRowPool, MaxRows)]

PcdFiles == [lead : {""}, head : PcdHeads, rows : SeqsUpTo(PcdRowPool, MaxRows - 1)]

LoadFiles ==
    [ lead : LeadPool,
      head : {PlyHead(n) : n \in 0..MaxLoadRows} \cup {PlyPcdHead(1)}
                 \cup DetectHeads \cup XyzHeads,
      rows : SeqsUpTo(LoadRowPool, MaxLoadRows) ]

InitFile(files) ==
    /\ pc = "start"
    /\ file \in files
    /\ txt = FileText(file)
    /\ pts = <<>> /\ loader = NoLoader /\ cls = NoCls
    /\ normal = NoNormal /\ app = NoApp
    /\ triangles = <<>> /\ stl = NoStl
    /\ points = <<>> /\ maxNeighbors = DefaultMaxNeighbors /\ mesh = <<>>

\* const points = parsePlyAscii(txt)
ParsePlyAscii ==
    /\ pc = "start"
    /\ pts' = parsePlyAscii(txt)
    /\ pc' = "done"
    /\ UNCHANGED <<triangles, stl, points, maxNeighbors, mesh, file, txt, loader, cls, normal, app>>

\* const points = parsePcdAscii(txt)
ParsePcdAscii ==
    /\ pc = "start"
    /\ pts' = parsePcdAscii(txt)
    /\ pc' = "done"
    /\ UNCHANGED <<triangles, stl, points, maxNeighbors, mesh, file, txt, loader, cls, normal, app>>

\* readPointCloudFile(f, onLoad) once file.text() has resolved
ReadPointCloudFile ==
    /\ pc = "start"
    /\ loader' = readPointCloudFile(txt)
    /\ pc' = "done"
    /\ UNCHANGED <<triangles, stl, points, maxNeighbors, mesh, file, txt, pts, cls, normal, app>>

InitPly == InitFile(PlyFiles)
NextPly == ParsePlyAscii
SpecPly == InitPly /\ [][NextPly]_vars

InitPcd == InitFile(PcdFiles)
NextPcd == ParsePcdAscii
SpecPcd == InitPcd /\ [][NextPcd]_vars

InitLoad == InitFile(LoadFiles)
NextLoad == ReadPointCloudFile
SpecLoad == InitLoad /\ [][NextLoad]_vars

(***************************************************************************)
(* What a file was written to hold, read off its parts.                    *)
(***************************************************************************)
FirstThree(nums) == <<Num(nums[1]), Num(nums[2]), Num(nums[3])>>

IsBlankRow(r) == r.first = "blank"
IsDataRow(r) == r.first # "blank"
ThreeNumbers(r) == r.first = "number" /\ Len(r.nums) = 3

RowPoints(rows) == [k \in 1..Len(rows) |-> FirstThree(rows[k].nums)]

\* C5: a text routed to the PLY parser whose header declares N vertices and is
\* followed by N rows of three numbers each is loaded as exactly those N points, in
\* file order, also when white space precedes 'ply'.
C5_PlyLoadsAllRows ==
    ( /\ pc = "done"
      /\ file.head.ply
      /\ Len(file.rows) = file.head.n
      /\ \A k \in 1..Len(file.rows) : ThreeNumbers(file.rows[k]) ) =>
        /\ loader.ran = <<"ply">>
        /\ loader.points = RowPoints(file.rows)
        /\ file.head.n > 0 => loader.onLoad

WithoutBlankRows(f) == [f EXCEPT !.rows = SelectSeq(f.rows, IsDataRow)]

BlanksAmongRows(f) ==
    /\ Len(SelectSeq(f.rows, IsDataRow)) = f.head.n
    /\ \A k \in 1..Len(f.rows) : IsBlankRow(f.rows[k]) \/ ThreeNumbers(f.rows[k])

\* C6: with N declared and N well-formed rows, blank lines placed anywhere among
\* the rows change nothing: parsePlyAscii returns the points it returns for the same
\* rows without the blank lines, which are the N rows' coordinates.
C6_BlankLinesFree ==
    (pc = "done" /\ BlanksAmongRows(file)) =>
        /\ pts = parsePlyAscii(FileText(WithoutBlankRows(file)))
        /\ pts = RowPoints(SelectSeq(file.rows, IsDataRow))

C6_Witness ==
    /\ pc = "done" /\ BlanksAmongRows(file)
    /\ Len(file.rows) = 4
    /\ IsBlankRow(file.rows[1]) /\ IsBlankRow(file.rows[3])
    /\ ThreeNumbers(file.rows[2]) /\ ThreeNumbers(file.rows[4])
    /\ Len(pts) = 2

\* Position of name in the FIELDS list, counted from 1; beyond the list if absent.
FieldPosition(fields, name) ==
    1 + Cardinality({k \in 1..Len(fields) : \A m \in 1..k : fields[m] # name})

TokenAt(nums, k) == IF k <= Len(nums) THEN Num(nums[k]) ELSE Undefined

HasXYZ(fields) == Len(fields) >= 3 /\ {"x", "y", "z"} \subseteq Range(fields)

RemappedPoint(fields, nums) ==
    IF HasXYZ(fields)
    THEN << TokenAt(nums, FieldPosition(fields, "x")),
            TokenAt(nums, FieldPosition(fields, "y")),
            TokenAt(nums, FieldPosition(fields, "z")) >>
    ELSE FirstThree(nums)

AtLeastThree(nums) == Len(nums) >= 3

\* The numeric tokens of the lines parsePcdAscii reads as data rows.
DataRowsOf(f) ==
    (IF f.head.data THEN <<>> ELSE f.head.nums) \o [k \in 1..Len(f.rows) |-> f.rows[k].nums]

XyzRouted(f) == ~f.head.ply /\ ~f.head.pcd

NumericRow(r) == r.first = "number" /\ Len(r.nums) >= 3
UnskippedRow(r) == r.first \notin {"blank", "hash"} /\ ~r.letter /\ Len(r.nums) >= 3

\* C8 as stated: the fallback skips '#' lines and every line whose first token is
\* not a number; exactly the rows whose first token is numeric and that hold at
\* least 3 numeric tokens give a point, made of the first three numeric tokens.
C8_SkipsNonNumeric ==
    (pc = "done" /\ XyzRouted(file)) =>
        loader.points = RowPoints(SelectSeq(file.rows, NumericRow))

\* C8 amended: the fallback skips '#' lines and every line whose first token
\* contains a letter; every other row that holds at least 3 numeric tokens gives
\* exactly one point, made of its first three numeric tokens.
C8_SkipsLetterRows ==
    (pc = "done" /\ XyzRouted(file)) =>
        loader.points = RowPoints(SelectSeq(file.rows, UnskippedRow))

C8_Witness ==
    /\ pc = "done" /\ XyzRouted(file)
    /\ file.head.text = "# comment\n"
    /\ Len(file.rows) = 2
    /\ file.rows[1].first = "letter" /\ NumericRow(file.rows[2]) /\ ~file.rows[2].letter
    /\ loader.points = <<FirstThree(file.rows[2].nums)>>

\* 'pcd' followed by an optional 'v' and a digit, nothing in between
PcdThenVersion(s) ==
    \E i \in 1..Len(s) :
        /\ i + 3 <= Len(s)
        /\ SubSeq(s, i, i + 2) = "pcd"
        /\ \/ IsDigit(Char(s, i + 3))
           \/ Char(s, i + 3) = "v" /\ i + 4 <= Len(s) /\ IsDigit(Char(s, i + 4))

\* The PCD rule as the specification words it.
StatedPcdRule(text) ==
    LET t == ToLowerCase(Trim(text))
    IN  StartsWith(t, "# .pcd") \/ PcdThenVersion(Slice0(t, 200))

StatedParser(f) ==
    IF f.head.ply THEN "ply" ELSE IF StatedPcdRule(FileText(f)) THEN "pcd" ELSE "xyz"

\* C9 as stated: exactly one parser runs: PLY if the trimmed text starts with 'ply',
\* otherwise PCD if the text starts with '# .pcd' or its first 200 characters contain
\* 'pcd' followed by an optional 'v' and a digit, otherwise the XYZ fallback.
C9_StatedPcdRule ==
    pc = "done" => loader.ran = <<StatedParser(file)>>

ExpectedParser(f) == IF f.head.ply THEN "ply" ELSE IF f.head.pcd THEN "pcd" ELSE "xyz"

\* C9 amended: exactly one parser runs: PLY if the text meets the PLY rule, otherwise
\* PCD if it starts with '# .pcd' or its first 200 characters contain 'pcd', white
\* space, an optional 'v' and a digit, otherwise the XYZ fallback; a text meeting
\* both rules is parsed as PLY only.
C9_OneParserByPrecedence ==
    pc = "done" => loader.ran = <<ExpectedParser(file)>>

C9_Witness ==
    /\ pc = "done"
    /\ file.head.ply /\ file.head.pcd
    /\ loader.ran = <<"ply">>

(***************************************************************************)
(* Inputs of the classifier: clouds of n points that alternate between a   *)
(* corner and the opposite corner of a box, in metres (thousandths) and    *)
(* the same clouds with every coordinate multiplied by 1000.               *)
(***************************************************************************)
MaxCloudPoints == 3

\* point counts: the small ones, one in the middle of the density boost and one
\* beyond its cap
CloudSizes == 0..MaxCloudPoints \cup {10, 40}

ExtentPool == {0, 50, 500, 550, 5000, 5001}
CornerPool == {<<0, 0, 0>>, <<13, -7, 3>>}

CloudOf(corner, e, factor, n) ==
    [k \in 1..n |->
        [a \in 1..3 |-> Num(factor * (corner[a] + (IF k % 2 = 0 THEN e[a] ELSE 0)))]]

Clouds ==
    { CloudOf(corner, e, factor, n) :
        corner \in CornerPool, e \in ExtentPool \X ExtentPool \X ExtentPool,
        factor \in {1, 1000}, n \in CloudSizes }

InitClassify ==
    /\ pc = "start"
    /\ points \in Clouds
    /\ cls = NoCls
    /\ normal = NoNormal /\ app = NoApp
    /\ maxNeighbors = DefaultMaxNeighbors /\ mesh = <<>>
    /\ triangles = <<>> /\ stl = NoStl
    /\ file = NoFile /\ txt = "" /\ pts = <<>> /\ loader = NoLoader

ClassifyPointCloud ==
    /\ pc = "start"
    /\ cls' = classifyPointCloud(points)
    /\ pc' = "done"
    /\ UNCHANGED <<triangles, stl, points, maxNeighbors, mesh, file, txt, pts, loader, normal, app>>

NextClassify == ClassifyPointCloud

SpecClassify == InitClassify /\ [][NextClassify]_vars

Times1000(pnts) == [k \in 1..Len(pnts) |-> [a \in 1..3 |-> Num(1000 * pnts[k][a].v)]]

\* Extent of the cloud along axis a, and the longest of the three, in thousandths.
Extent(pnts, a) ==
    SetMax({pnts[k][a].v : k \in 1..Len(pnts)}) - SetMin({pnts[k][a].v : k \in 1..Len(pnts)})

Longest(pnts) == SetMax({Extent(pnts, a) : a \in 1..3})

\* L <= 5 and 1000 * L > 5
AcrossUnitSwitch(pnts) ==
    Len(pnts) > 0 /\ Longest(pnts) <= 5000 /\ 1000 * Longest(pnts) > 5000

\* C10: a cloud whose longest extent L has L <= 5 and 1000 * L > 5 and the cloud
\* with all coordinates multiplied by 1000 get the same label and the same bounding
\* box in metres.
C10_UnitScaleInvariant ==
    (pc = "done" /\ AcrossUnitSwitch(points)) =>
        LET scaled == classifyPointCloud(Times1000(points))
        IN  /\ cls.label = scaled.label
            /\ cls.bboxMeters = scaled.bboxMeters

\* C11: the confidence classifyPointCloud returns lies in 0..1 (0..100 hundredths),
\* for the empty cloud, single points, thin and blobby clouds and every point count.
C11_ConfidenceInRange ==
    pc = "done" => cls.confidence \in 0..100

\* a thin forearm of 40 points: 0.8 + 0.15 + 0.15 is capped to 1
C11_Witness ==
    /\ pc = "done"
    /\ Len(points) = 40
    /\ cls.label = "forearm"
    /\ <<Extent(points, 1), Extent(points, 2), Extent(points, 3)>> = <<500, 50, 50>>
    /\ cls.confidence = 100

(***************************************************************************)
(* The text encoders.  x.toFixed(6) of a number with at most six decimals  *)
(* is its decimal numeral padded to six; of NaN it is "NaN"; of undefined  *)
(* it raises a TypeError.                                                  *)
(***************************************************************************)
TypeError == "TypeError"

RECURSIVE NatText(_)
NatText(n) == IF n < 10 THEN DigitText(n) ELSE NatText(n \div 10) \o DigitText(n % 10)

RECURSIVE PadText(_, _)
PadText(n, width) ==
    IF width = 0 THEN "" ELSE PadText(n \div 10, width - 1) \o DigitText(n % 10)

toFixed6(x) ==
    IF IsNaN(x) THEN "NaN"
    ELSE LET a == Abs(x.v)
             unit == Pow10(x.d)
         IN  (IF x.v < 0 THEN "-" ELSE "") \o NatText(a \div unit) \o "."
                 \o PadText((a % unit) * Pow10(6 - x.d), 6)

HasUndefined(pnts) == \E k \in 1..Len(pnts) : \E a \in 1..3 : pnts[k][a] = Undefined

VertexLine(p) == toFixed6(p[1]) \o " " \o toFixed6(p[2]) \o " " \o toFixed6(p[3]) \o "\n"

RECURSIVE VertexLines(_, _)
VertexLines(prefix, pnts) ==
    IF pnts = <<>> THEN "" ELSE prefix \o VertexLine(pnts[1]) \o VertexLines(prefix, Tail(pnts))

NoText == [thrown |-> TypeError, text |-> "", downloaded |-> FALSE]

exportPointCloudToOBJ(pnts) ==
    IF HasUndefined(pnts) THEN NoText
    ELSE [ thrown |-> None,
           text |-> "# Exported LiDAR Point Cloud\n# Points: " \o NatText(Len(pnts)) \o "\n\n"
                        \o VertexLines("v ", pnts),
           downloaded |-> TRUE ]

\* the header line that announces the number of vertices
VertexCountShort(pnts) == "element vertex " \o NatText(Len(pnts) - 1) \o "\n"

VertexCountLine(pnts) == "element vertex " \o NatText(Len(pnts)) \o "\n"

exportPointCloudToPLY(pnts) ==
    IF HasUndefined(pnts) THEN NoText
    ELSE [ thrown |-> None,
           text |-> "ply\nformat ascii 1.0\n" \o VertexCountLine(pnts)
                        \o "property float x\nproperty float y\nproperty float z\nend_header\n"
                        \o VertexLines("", pnts),
           downloaded |-> TRUE ]

\* The mesh and the binary encoder work on whole-number coordinates.
Coordinates(pnts) == [k \in 1..Len(pnts) |-> <<pnts[k][1].v, pnts[k][2].v, pnts[k][3].v>>]

\* exportTrianglesToSTL applied to a mesh that has been built
EncodedTriangles[tris \in Seq(Seq(Seq(Int)))] == exportTrianglesToSTL(tris)

MeshTriangles[pnts \in Seq(Seq(Int)), m \in Seq(Seq(Nat))] == EncodedTriangles[TrianglesOf(pnts, m)]

exportPointCloudToSTL(pnts) ==
    MeshTriangles[pnts, createSimpleMeshFromPoints(pnts, DefaultMaxNeighbors)]

(***************************************************************************)
(* The App and its LiDARLoader.  app.reads records, per call of handleFile *)
(* with a file, the file, the selections in flight at that moment, and how *)
(* the selection stands: "pending" while the                               *)
(* read or decode is in flight, then "onLoad" (the data was delivered),    *)
(* "error" (a message was set) or "silent" (it ended with neither).  Reads *)
(* in flight finish in any order.  app.alerts counts the alerts raised by  *)
(* exportPointCloud, app.encoded lists the encoder runs.                   *)
(***************************************************************************)
MaxSelections == 2
MaxExports == 1

EndsWith(s, suffix) ==
    Len(s) >= Len(suffix) /\ SubSeq(s, Len(s) - Len(suffix) + 1, Len(s)) = suffix

\* the branch handleFile takes for a file name
Route(fileName) ==
    LET name == ToLowerCase(fileName)
    IN  IF EndsWith(name, ".png") \/ EndsWith(name, ".jpg") \/ EndsWith(name, ".jpeg")
        THEN "image"
        ELSE IF EndsWith(name, ".ply") \/ EndsWith(name, ".pcd") \/ EndsWith(name, ".xyz")
                    \/ EndsWith(name, ".txt")
        THEN "cloud"
        ELSE "none"

ErrorExtension == "Unrecognized file extension."
ErrorImage == "Image could not be read as a valid LiDAR depth image."

\* A file: its name; how reading it goes ("ok"; "rejected" when file.text()
\* rejects; "error" when the image element fires onerror; "noctx" when the
\* canvas gives no 2-D context); its text; the size of its decoded bitmap.
\* A point-cloud file also records the format its text is written in and how
\* many of its rows hold a point.
AppFile(name, read, text, width, height, format, rows) ==
    [ name |-> name, read |-> read, text |-> text, width |-> width, height |-> height,
      format |-> format, rows |-> rows ]

CloudFile(name, format, rows, text) == AppFile(name, "ok", text, 0, 0, format, rows)
ImageFile(name, read, width, height) == AppFile(name, read, "", width, height, None, 0)

NoSelection == AppFile("", "ok", "", 0, 0, None, 0)

ArmXyz == CloudFile("arm.xyz", "xyz", 3, "0 0 0\n9 0 0\nbad row\n0 9 0\n")
VoidPcd == CloudFile("void.pcd", "pcd", 0, "# .PCD\nDATA ascii\n")
DepthPng == ImageFile("depth.png", "ok", 2, 1)
MeshStl == AppFile("mesh.stl", "ok", "", 0, 0, None, 0)

\* the files selected while exports are requested
AppFiles == {ArmXyz, VoidPcd, DepthPng, MeshStl}

\* the files selected when the loader is studied on its own
LoaderFiles ==
    AppFiles \cup
    { CloudFile("none.txt", "xyz", 0, "# nothing\nbad row\n7 8\n"),
      CloudFile("ARM.PLY", "ply", 1, "ply\nelement vertex 1\nend_header\n1 2 3\n"),
      CloudFile("void.ply", "ply", 0, "ply\nelement vertex 0\nend_header\n"),
      CloudFile("scan.pcd", "pcd", 1, "# .PCD\nFIELDS x y z\nDATA ascii\n4 5 6\n7 8\n"),
      AppFile("gone.xyz", "rejected", "", 0, 0, "xyz", 0),
      ImageFile("torn.jpg", "error", 0, 0),
      ImageFile("depth.jpeg", "noctx", 2, 1) }

PointCloud(pnts) == [type |-> "pointcloud", points |-> pnts]
ImageData(width, height) ==
    [type |-> "image", width |-> width, height |-> height, pixels |-> 4 * width * height]

\* handleLiDARLoad(data)
handleLiDARLoad(a, data) ==
    [a EXCEPT !.lidarData = data,
              !.lidarSummary = IF data.type = "image"
                               THEN <<"Image", data.width, data.height>>
                               ELSE <<"Pointcloud", Len(data.points)>>]

classifyFromImage(width, height) ==
    [label |-> "unknown (image)", confidence |-> 20,
     bboxMeters |-> <<width, height, 0>>, points |-> 0]

Ended(a, i, how) == [a EXCEPT !.reads[i].state = how]

\* the selections whose read or decode is in flight
InFlight(a) == {i \in 1..Len(a.reads) : a.reads[i].state = "pending"}

\* the record of a selection: its file, how it stands, and the selections that
\* were in flight when it was made
Selected(a, f, state) == [file |-> f, state |-> state, over |-> InFlight(a)]

\* handleFile(e): e.target.files[0] is f, or nothing when f is NoSelection
handleFile(a, f) ==
    LET cleared == [a EXCEPT !.error = None]
    IN  IF f = NoSelection THEN cleared
        ELSE IF Route(f.name) = "none"
        THEN [cleared EXCEPT !.error = ErrorExtension,
                             !.reads = Append(@, Selected(a, f, "error"))]
        ELSE [cleared EXCEPT !.reads = Append(@, Selected(a, f, "pending"))]

\* readImageAsDepth: img.onload or img.onerror fires for selection i
readImageAsDepth(a, i) ==
    LET f == a.reads[i].file
        data == ImageData(f.width, f.height)
    IN  IF f.read \in {"error", "noctx"} THEN Ended(a, i, "silent")
        ELSE IF f.width = 0 \/ f.height = 0 \/ data.pixels = 0
        THEN [Ended(a, i, "error") EXCEPT !.error = ErrorImage]
        ELSE [handleLiDARLoad(Ended(a, i, "onLoad"), data) EXCEPT
                  !.classification = ClassificationText(classifyFromImage(f.width, f.height))]

\* the outcome r of a parser branch delivered without looking at its length
SettledUnchecked(a, i, r) ==
    [handleLiDARLoad(Ended(a, i, "onLoad"), PointCloud(r.points)) EXCEPT
         !.classification = r.classification]

\* what readPointCloudFile does with the outcome r of its branch
Settled(a, i, r) ==
    IF ~r.onLoad THEN [Ended(a, i, "error") EXCEPT !.error = r.error]
    ELSE [handleLiDARLoad(Ended(a, i, "onLoad"), PointCloud(r.points)) EXCEPT
              !.classification = r.classification]

\* readPointCloudFile resumes after `await file.text()` for selection i
resumeReadPointCloudFile(a, i) ==
    IF a.reads[i].file.read = "rejected" THEN Ended(a, i, "silent")
    ELSE Settled(a, i, readPointCloudFile(a.reads[i].file.text))

\* the guard of exportPointCloud
CanExportAnyData(data) == data # NoData

CanExport(data) == data # NoData /\ data.type = "pointcloud"

Formats == {"obj", "stl", "ply"}

\* what is kept of a run of the binary encoder
BinaryRun(r) == [thrown |-> r.thrown, text |-> "", downloaded |-> r.downloaded]

Encode(format, pnts) ==
    IF format = "obj" THEN exportPointCloudToOBJ(pnts)
    ELSE IF format = "stl" THEN BinaryRun(exportPointCloudToSTL(Coordinates(pnts)))
    ELSE exportPointCloudToPLY(pnts)

\* exportPointCloud(format); an encoder handed data without points raises a
\* TypeError when it iterates them
exportPointCloud(a, format) ==
    IF ~CanExport(a.lidarData) THEN [a EXCEPT !.alerts = @ + 1]
    ELSE [a EXCEPT !.encoded =
              Append(@, [format |-> format, data |-> a.lidarData,
                         run |-> IF "points" \in DOMAIN a.lidarData
                                 THEN Encode(format, a.lidarData.points)
                                 ELSE NoText])]

InitApp ==
    /\ pc = "start"
    /\ app = NoApp
    /\ triangles = <<>> /\ stl = NoStl
    /\ points = <<>> /\ maxNeighbors = DefaultMaxNeighbors /\ mesh = <<>>
    /\ file = NoFile /\ txt = "" /\ pts = <<>> /\ loader = NoLoader /\ cls = NoCls
    /\ normal = NoNormal

Others == <<pc, triangles, stl, points, maxNeighbors, mesh, file, txt, pts, loader, cls, normal>>

HandleFile(files) ==
    /\ Len(app.reads) < MaxSelections
    /\ \E f \in files \cup {NoSelection} : app' = handleFile(app, f)
    /\ UNCHANGED Others

ImageDecoded ==
    /\ \E i \in 1..Len(app.reads) :
          /\ app.reads[i].state = "pending"
          /\ Route(app.reads[i].file.name) = "image"
          /\ app' = readImageAsDepth(app, i)
    /\ UNCHANGED Others

TextRead ==
    /\ \E i \in 1..Len(app.reads) :
          /\ app.reads[i].state = "pending"
          /\ Route(app.reads[i].file.name) = "cloud"
          /\ app' = resumeReadPointCloudFile(app, i)
    /\ UNCHANGED Others

ExportPointCloud ==
    /\ app.alerts + Len(app.encoded) < MaxExports
    /\ \E format \in Formats : app' = exportPointCloud(app, format)
    /\ UNCHANGED Others

NextApp == HandleFile(AppFiles) \/ ImageDecoded \/ TextRead \/ ExportPointCloud

SpecApp == InitApp /\ [][NextApp]_vars

\* The loader with the App's handleLiDARLoad as its onLoad, no export requested.
NextLoader == HandleFile(LoaderFiles) \/ ImageDecoded \/ TextRead

SpecLoader == InitApp /\ [][NextLoader]_vars

(***************************************************************************)
(* Export requests.  A step is an export request when it adds an alert or  *)
(* an encoder run.                                                         *)
(***************************************************************************)
ExportRequested == app'.alerts + Len(app'.encoded) = app.alerts + Len(app.encoded) + 1

HoldsPointCloud == app.lidarData.type = "pointcloud"

\* C12: an export request runs an encoder only when the App holds a point cloud,
\* and then on the held cloud; with nothing held or an image held it raises the
\* alert, runs no encoder and leaves the state of the App and its loader as it was.
C12_ExportOnlyPointCloud ==
    [][ ExportRequested =>
            IF HoldsPointCloud
            THEN /\ app'.alerts = app.alerts
                 /\ Len(app'.encoded) = Len(app.encoded) + 1
                 /\ app'.encoded[Len(app'.encoded)].data = app.lidarData
                 /\ app'.encoded[Len(app'.encoded)].format \in Formats
            ELSE /\ app'.alerts = app.alerts + 1
                 /\ app' = [app EXCEPT !.alerts = @ + 1] ]_vars

\* a cloud was delivered, an image was loaded over it, and an export was refused
C12_Witness ==
    /\ Len(app.reads) = 2
    /\ app.reads[1].file.name = "arm.xyz" /\ app.reads[1].state = "onLoad"
    /\ app.reads[2].state = "onLoad"
    /\ app.lidarData.type = "image"
    /\ app.alerts = 1
    /\ app.encoded = <<>>

(***************************************************************************)
(* Loading point-cloud files.  Selection i settles in a step when it was   *)
(* pending before the step and is not after it.                            *)
(***************************************************************************)
Settles(i) == app.reads[i].state = "pending" /\ app'.reads[i].state # "pending"

ReadableCloud(f) == f.format \in {"ply", "pcd", "xyz"} /\ f.read = "ok"

EmptyMessage(f) ==
    IF f.format = "ply" THEN ErrorPly ELSE IF f.format = "pcd" THEN ErrorPcd ELSE ErrorXyz

Shown(a) == <<a.lidarData, a.lidarSummary, a.classification>>

\* C13: when the text of a point-cloud file has been read, a file without a
\* single point row sets the error message of its parser branch and leaves the
\* held data, its summary and the classification as they were; a file with at
\* least one point row, malformed rows or not, has its points delivered through
\* onLoad and sets no error message.
C13_FailsOnlyWhenEmpty ==
    [][ \A i \in 1..Len(app.reads) :
            Settles(i) /\ ReadableCloud(app.reads[i].file) =>
                LET f == app.reads[i].file
                IN  IF f.rows = 0
                    THEN /\ app'.reads[i].state = "error"
                         /\ app'.error = EmptyMessage(f)
                         /\ Shown(app') = Shown(app)
                    ELSE /\ app'.reads[i].state = "onLoad"
                         /\ app'.lidarData.type = "pointcloud"
                         /\ Len(app'.lidarData.points) = f.rows
                         /\ app'.lidarSummary = <<"Pointcloud", f.rows>>
                         /\ app'.error = app.error ]_vars

\* an empty PCD file failed with its message; then a file of three point rows and
\* one malformed row was selected, which cleared the message, and was delivered
C13_Witness ==
    /\ Len(app.reads) = 2
    /\ app.reads[1].file.name = "void.pcd" /\ app.reads[1].state = "error"
    /\ app.reads[2].file.name = "arm.xyz" /\ app.reads[2].state = "onLoad"
    /\ app.lidarData.type = "pointcloud" /\ Len(app.lidarData.points) = 3
    /\ app.error = None

(***************************************************************************)
(* computeNormal on coordinates that are decimal fractions.  Every         *)
(* subtraction and product is rounded to binary64 as JavaScript rounds it. *)
(* Math.hypot of the cross product is positive exactly when one of its     *)
(* components is not zero; the result records the cross product n and      *)
(* whether the fallback was returned: the vector returned is (0, 0, 1) on  *)
(* the fallback and n / hypot(n) otherwise.  On whole-number coordinates   *)
(* no operation rounds and this is computeNormal above.                    *)
(***************************************************************************)
\* the limbs of a * b: acc plus a times the limbs of b from limb k on
BMulFrom[a \in Seq(Nat), b \in Seq(Nat), k \in Nat, acc \in Seq(Nat)] ==
    IF k > Len(b) THEN acc
    ELSE BMulFrom[a, b, k + 1, BAdd[acc, BShl[BMulSmall[a, b[k]], LimbBits * (k - 1)]]]

BMul[a \in Seq(Nat), b \in Seq(Nat)] == BNorm[BMulFrom[a, b, 1, <<>>]]

\* a * b
Mul64[a \in Binary64, b \in Binary64] == Round64[a.s * b.s, BMul[a.n, b.n], a.e + b.e, FALSE]

IsZero64(x) == x.n = <<>>

\* v2 - v1 of two points given in thousandths
Edge64(v1, v2) == [a \in 1..3 |-> Sub64[Decimal64[v2[a]], Decimal64[v1[a]]]]

\* e1[i] * e2[j] - e1[j] * e2[i]
CrossTerm[e1 \in Seq(Binary64), e2 \in Seq(Binary64), i \in 1..3, j \in 1..3] ==
    Sub64[Mul64[e1[i], e2[j]], Mul64[e1[j], e2[i]]]

Cross64[e1 \in Seq(Binary64), e2 \in Seq(Binary64)] ==
    <<CrossTerm[e1, e2, 2, 3], CrossTerm[e1, e2, 3, 1], CrossTerm[e1, e2, 1, 2]>>

\* len > 0
PositiveLength(n) == \E a \in 1..3 : ~IsZero64(n[a])

Normalized[n \in Seq(Binary64)] == [n |-> n, fallback |-> ~PositiveLength(n)]

computeNormal64(v1, v2, v3) == Normalized[Cross64[Edge64(v1, v2), Edge64(v1, v3)]]

\* Points in thousandths: whole numbers and decimal fractions.
NormalPool ==
    { <<0, 0, 0>>, <<1000, 0, 0>>, <<2000, 0, 0>>, <<0, 1000, 0>>, <<1000, 1000, 1000>>,
      <<200, 700, 0>>, <<-400, -1400, 0>> }

InitNormal ==
    /\ pc = "start"
    /\ points \in [1..3 -> NormalPool]
    /\ normal = NoNormal
    /\ maxNeighbors = DefaultMaxNeighbors /\ mesh = <<>>
    /\ triangles = <<>> /\ stl = NoStl
    /\ file = NoFile /\ txt = "" /\ pts = <<>> /\ loader = NoLoader /\ cls = NoCls
    /\ app = NoApp

ComputeNormal ==
    /\ pc = "start"
    /\ normal' = computeNormal64(points[1], points[2], points[3])
    /\ pc' = "done"
    /\ UNCHANGED <<triangles, stl, points, maxNeighbors, mesh, file, txt, pts, loader, cls, app>>

NextNormal == ComputeNormal

SpecNormal == InitNormal /\ [][NextNormal]_vars

(***************************************************************************)
(* The three points as the numbers JavaScript holds, and their exact       *)
(* (unrounded) cross product.                                              *)
(***************************************************************************)
Held(v) == [a \in 1..3 |-> Decimal64[v[a]]]

ExactDiff[a \in Binary64, b \in Binary64] == Diff64[a, b]

ExactProd[a \in Dyadic, b \in Dyadic] == [s |-> a.s * b.s, n |-> BMul[a.n, b.n], e |-> a.e + b.e]

\* x * y = z * w for exact numbers
SameProduct[x \in Dyadic, y \in Dyadic, z \in Dyadic, w \in Dyadic] ==
    LET l == ExactProd[x, y]
        r == ExactProd[z, w]
        m == Min(l.e, r.e)
    IN  \/ l.n = <<>> /\ r.n = <<>>
        \/ l.n # <<>> /\ r.n # <<>> /\ l.s = r.s
               /\ BShl[l.n, l.e - m] = BShl[r.n, r.e - m]

ExactEdge(p, q) == [a \in 1..3 |-> ExactDiff[Held(q)[a], Held(p)[a]]]

Collinear(v1, v2, v3) ==
    LET e1 == ExactEdge(v1, v2)
        e2 == ExactEdge(v1, v3)
    IN  /\ SameProduct[e1[2], e2[3], e1[3], e2[2]]
        /\ SameProduct[e1[3], e2[1], e1[1], e2[3]]
        /\ SameProduct[e1[1], e2[2], e1[2], e2[1]]

\* the vector returned is (0, 0, 1)
ReturnsUnitZ(r) ==
    r.fallback \/ (IsZero64(r.n[1]) /\ IsZero64(r.n[2]) /\ ~IsZero64(r.n[3]) /\ r.n[3].s = 1)

\* C14: for three collinear points, repeated points included, computeNormal
\* returns (0, 0, 1).
C14_CollinearGivesUnitZ ==
    pc = "done" /\ Collinear(points[1], points[2], points[3]) => ReturnsUnitZ(normal)

(***************************************************************************)
(* exportPointCloudToSTL on a loaded cloud: the mesh with the default      *)
(* maxNeighbors, then the binary encoder.                                  *)
(***************************************************************************)
MaxExportPoints == 4

ExportPool == {<<0, 0, 0>>, <<1, 0, 0>>, <<0, 2, 1>>}

InitExport ==
    /\ pc = "start"
    /\ points \in SeqsUpTo(ExportPool, MaxExportPoints) \ {<<>>}
    /\ maxNeighbors = DefaultMaxNeighbors /\ mesh = <<>>
    /\ triangles = <<>> /\ stl = NoStl
    /\ file = NoFile /\ txt = "" /\ pts = <<>> /\ loader = NoLoader /\ cls = NoCls
    /\ normal = NoNormal /\ app = NoApp

ExportPointCloudToSTL ==
    /\ pc = "start"
    /\ mesh' = createSimpleMeshFromPoints(points, DefaultMaxNeighbors)
    /\ stl' = exportPointCloudToSTL(points)
    /\ pc' = "done"
    /\ UNCHANGED <<triangles, points, maxNeighbors, file, txt, pts, loader, cls, normal, app>>

NextExport == ExportPointCloudToSTL

SpecExport == InitExport /\ [][NextExport]_vars

\* C15: for every cloud of one point or more, exportPointCloudToSTL raises nothing
\* and hands the download a buffer of 84 + 50 * T bytes, T the number of triangles
\* of the cloud's mesh.
C15_ExportNeverFails ==
    pc = "done" =>
        /\ stl.thrown = None
        /\ stl.downloaded
        /\ ByteLength(stl.buffer) = 84 + 50 * Len(mesh)

(***************************************************************************)
(* The size and the order of the mesh.                                     *)
(***************************************************************************)
\* triangles per source point: min(k, n - 1) - 1
FanSize(n, k) == Min(k, n - 1) - 1

\* C16: a cloud of n >= 3 points meshed with maxNeighbors k >= 1 gives exactly
\* n * (min(k, n-1) - 1) triangles, those of point 1 first, then those of point 2,
\* and so on, each with its source point as first vertex; a cloud of fewer than
\* 3 points gives the empty mesh.
C16_MeshSizeAndOrder ==
    pc = "done" =>
        IF Len(points) < 3 THEN mesh = <<>>
        ELSE /\ Len(mesh) = Len(points) * FanSize(Len(points), maxNeighbors)
             /\ \A t \in 1..Len(mesh) :
                    mesh[t][1] = ((t - 1) \div FanSize(Len(points), maxNeighbors)) + 1

\* 4 points and maxNeighbors = 2: one triangle per point, in the order of the points
C16_Witness ==
    /\ pc = "done"
    /\ Len(points) = 4 /\ maxNeighbors = 2
    /\ Len(mesh) = 4
    /\ \A t \in 1..4 : mesh[t][1] = t

(***************************************************************************)
(* The coordinates of delivered points.                                    *)
(***************************************************************************)
NumericPoint(p) == \A a \in 1..3 : IsNum(p[a])

\* C17: every point readPointCloudFile delivers to onLoad, whichever parser made
\* it, has three coordinates that are numbers: none is NaN, none is undefined.
C17_DeliveredPointsNumeric ==
    (pc = "done" /\ loader.onLoad) =>
        \A k \in 1..Len(loader.points) : NumericPoint(loader.points[k])

(***************************************************************************)
(* A cloud exported as PLY and the exported text loaded again.  The        *)
(* coordinates are numbers of at most three decimals and NaN, which        *)
(* parsePlyAscii can deliver.                                              *)
(***************************************************************************)
MaxTripPoints == 3

TripPool ==
    { <<Num(0), Num(-12), Decimal(15, 1)>>,
      <<Decimal(-13, 3), Num(7), Num(0)>>,
      <<NaN, Num(1), Num(2)>>,
      <<Decimal(15, 1), Decimal(15, 1), Decimal(15, 1)>> }

InitTrip ==
    /\ pc = "start"
    /\ points \in SeqsUpTo(TripPool, MaxTripPoints) \ {<<>>}
    /\ txt = "" /\ loader = NoLoader
    /\ maxNeighbors = DefaultMaxNeighbors /\ mesh = <<>>
    /\ triangles = <<>> /\ stl = NoStl
    /\ file = NoFile /\ pts = <<>> /\ cls = NoCls
    /\ normal = NoNormal /\ app = NoApp

\* exportPointCloudToPLY(points), then readPointCloudFile on the downloaded text
ExportThenLoad ==
    /\ pc = "start"
    /\ txt' = exportPointCloudToPLY(points).text
    /\ loader' = readPointCloudFile(txt')
    /\ pc' = "done"
    /\ UNCHANGED <<triangles, stl, points, maxNeighbors, mesh, file, pts, cls, normal, app>>

NextTrip == ExportThenLoad

SpecTrip == InitTrip /\ [][NextTrip]_vars

\* C18: the text exportPointCloudToPLY writes for a non-empty cloud is read by the
\* PLY parser, which delivers as many points, in the same order, each coordinate
\* the original one (which has fewer than 6 decimals).
C18_PlyRoundTrip ==
    pc = "done" =>
        /\ loader.ran = <<"ply">>
        /\ loader.onLoad
        /\ Len(loader.points) = Len(points)
        /\ loader.points = points

\* three different points, with negative and fractional coordinates, come back
C18_Witness ==
    /\ pc = "done"
    /\ points = << <<Decimal(-13, 3), Num(7), Num(0)>>,
                   <<Num(0), Num(-12), Decimal(15, 1)>>,
                   <<Decimal(15, 1), Decimal(15, 1), Decimal(15, 1)>> >>
    /\ loader.points = points

(***************************************************************************)
(* Selections that overlap.                                                *)
(***************************************************************************)
\* what the App holds and the loader shows once the data of file f is loaded
SummaryOf(f) ==
    IF f.format = None THEN <<"Image", f.width, f.height>> ELSE <<"Pointcloud", f.rows>>

TypeOf(f) == IF f.format = None THEN "image" ELSE "pointcloud"

HoldsDataOf(f) ==
    /\ app.lidarData.type = TypeOf(f)
    /\ app.lidarSummary = SummaryOf(f)
    /\ (app.classification.label = "unknown (image)") = (f.format = None)

AllSettled == InFlight(app) = {}

\* C19: when file B was selected while the read or decode of an earlier file A
\* was in flight, and both have delivered their data, the App holds the data of
\* B and the loader shows the classification of B.
C19_LastSelectionWins ==
    \A j \in 1..Len(app.reads) :
        ( /\ AllSettled
          /\ j = Len(app.reads)
          /\ app.reads[j].state = "onLoad"
          /\ \E i \in app.reads[j].over : app.reads[i].state = "onLoad" )
        => HoldsDataOf(app.reads[j].file)

\* C20: a selection whose read or decode has finished has had its data handed
\* to onLoad or has set an error message; none has ended with neither.
C20_EverySelectionShows ==
    \A i \in 1..Len(app.reads) : app.reads[i].state \in {"pending", "onLoad", "error"}

====
